---- MODULE Spec2Model ----
(***************************************************************************)
(* State-machine model of ApiDashClient (src/src/client.ts): the in-memory *)
(* event buffer, the single-flight flush engine with retry classification,  *)
(* exponential backoff with jitter, and the disk spool.                     *)
(*                                                                          *)
(* Scheduling is Node's cooperative model: every action below is one run of *)
(* synchronous code between two suspension points (an await of the HTTP     *)
(* response or of a file-system promise).                                   *)
(***************************************************************************)
EXTENDS Integers, Sequences, FiniteSets, TLC

(***************************************************************************)
(* Bounds of the model and the option values of the modelled client.        *)
(***************************************************************************)
\* number of track() calls the host makes
MaxEvents == 3
\* Date.now() when the client is constructed
StartTime == 1000
\* the clock stops advancing at this many milliseconds
MaxNow == 13000
\* options.batchSize
batchSize == 2
\* options.maxBufferSize
maxBufferSize == 2
\* options.maxStorageBytes
maxStorageBytes == 8
\* options.maxEventBytes
maxEventBytes == 3
\* the highest status code a response carries
MaxStatus == 599
\* in the life of a client: the track() calls of the host, and where the clock stops
MaxLifeEvents == 1
MaxLifeNow == 3000
\* number of processes that build a client on the storage path, one after another
MaxProcesses == 2
\* the longest URL handed to sortQueryString
MaxUrlLen == 5
\* where the clock stops while the resolver hook is followed
MaxLookupNow == 121000

(***************************************************************************)
(* Program constants.                                                       *)
(***************************************************************************)
MAX_CONSECUTIVE_FAILURES == 5
SEND_TIMEOUT_MS == 5000
DNS_CACHE_TTL_MS == 60000
BASE_BACKOFF_MS == 1000
RETRYABLE_STATUS_CODES == {429, 500, 502, 503, 504}

\* the steps the clock takes, in milliseconds
TimeSteps == {2000}

\* Math.random() samples, in quarters: 0, 1/2 and 3/4 of the half-open [0, 1)
RandomQuarters == {0, 2, 3}

\* status codes the endpoint answers with; a transport error carries none
StatusSamples == {200, 400, 429, 500}
Outcomes ==
  [kind : {"response"}, status : StatusSamples, retryAfter : {"absent"}]
    \cup {[kind |-> "error", status |-> 0, retryAfter |-> "absent"]}

\* res.headers["retry-after"] of a response, and the outcomes with it
RetryAfterInputs == {"absent", "0", "120"}
HeaderOutcomes ==
  [kind : {"response"}, status : StatusSamples, retryAfter : RetryAfterInputs]
    \cup {[kind |-> "error", status |-> 0, retryAfter |-> "absent"]}

\* the status codes a response can carry, and the clock steps of a pending send()
Statuses == 200..MaxStatus
SendTimeSteps == {2500}

\* events the host hands to track(): serialized size without metadata, and the
\* size its metadata adds (0: the event has no metadata field)
EventSizes == {1}
MetaSizes == {0}

VARIABLES
  buffer,               \* this.buffer
  flushInFlight,        \* this.flushInFlight
  consecutiveFailures,  \* this.consecutiveFailures
  backoffUntil,         \* this.backoffUntil
  inFlight,             \* the doFlush() invocations that have not returned yet
  spool,                \* the lines of the file at storagePath, each one batch
  now,                  \* Date.now()
  nextId,               \* identity of the next event the host tracks
  admitted,             \* ids of the events track() pushed to the buffer
  acked,                \* ids of the events of batches answered with 2xx
  diskError,            \* some disk operation of the client has raised an I/O error
  lastOp,               \* the step taken last
  lastFlight,           \* the doFlush() that step started or advanced, NoFlight if none
  recovering,           \* the lines of the file at storagePath + ".recovering"
  recoveryPath,         \* this.recoveryPath is set
  recovered,            \* the events loadFromDisk() pushed when this client was built
  loadSource,           \* the file loadFromDisk() took as its source then
  timer,                \* this.timer is set: the ticker runs
  signalHandlers,       \* this.signalHandlers
  listeners,            \* the SIGTERM and SIGINT listeners of the process
  agentDestroyed,       \* this.agent.destroy() has been called
  shutdownPc,           \* where the shutdown() call of the host is suspended
  shutdownAwaited,      \* a doFlush() was pending when shutdown() began to await it
  pid,                  \* the process the client runs in, counted from 1
  options,              \* the options handed to the constructor: endpoint, apiKey, debug
  lookup,               \* the resolver hook: its last answer and its cache entry
  query,                \* the URLs handed to sortQueryString and what it returned
  sendPhase,            \* how far a send() observed on its own has come
  sendOutcome,          \* what the transport has delivered to that send()
  sendResult,           \* how its promise settled, and the retryable field
  sendStart,            \* Date.now() when it was called
  sendTimer             \* its setTimeout(() => ac.abort()) is armed

\* the flush engine, its disk file and the observations of both
flushVars ==
  <<buffer, flushInFlight, consecutiveFailures, backoffUntil, inFlight, spool, now,
    nextId, admitted, acked, diskError, lastOp, lastFlight>>

\* the recovery file and the path recorded for it
recoveryVars == <<recovering, recoveryPath>>

\* the lifecycle of the client inside its process
procVars ==
  <<recovered, loadSource, timer, signalHandlers, listeners, agentDestroyed, shutdownPc,
    shutdownAwaited, pid, options, lookup, query>>

\* one send() call followed through its phases
sendVars == <<sendPhase, sendOutcome, sendResult, sendStart, sendTimer>>

vars == <<flushVars, recoveryVars, procVars, sendVars>>

(***************************************************************************)
(* Helpers.                                                                 *)
(***************************************************************************)
Min(a, b) == IF a < b THEN a ELSE b

IsPrefix(s, t) == Len(s) <= Len(t) /\ SubSeq(t, 1, Len(s)) = s

Ids(events) == {events[i].id : i \in DOMAIN events}

RECURSIVE SumBytes(_)
SumBytes(events) ==
  IF events = <<>> THEN 0
  ELSE (Head(events).size + Head(events).meta) + SumBytes(Tail(events))

\* Buffer.byteLength(JSON.stringify(event))
EventBytes(e) == e.size + e.meta

\* byte length of JSON.stringify(events) + "\n": brackets, events, commas, newline
LineBytes(events) ==
  2 + SumBytes(events) + (IF Len(events) > 0 THEN Len(events) - 1 ELSE 0) + 1

\* stat.size of the spool file
RECURSIVE FileBytes(_)
FileBytes(lines) ==
  IF lines = <<>> THEN 0 ELSE LineBytes(Head(lines)) + FileBytes(Tail(lines))

SpoolIds == UNION {Ids(spool[i]) : i \in DOMAIN spool}
InFlightIds == UNION {Ids(t.events) : t \in inFlight}

(***************************************************************************)
(* Scheduling around shutdown(): a continuation that became runnable runs   *)
(* before the event loop takes its next callback.                           *)
(***************************************************************************)
\* the continuation of shutdown() after one of its two awaits is queued
ShutdownRunnable ==
  \/ shutdownPc = "wait" /\ (~shutdownAwaited \/ ~flushInFlight)
  \/ shutdownPc = "final" /\ ~flushInFlight

\* a timer, I/O or signal callback is taken only once no continuation is queued
EventLoopTurn == ~ShutdownRunnable

\* synchronous code of the host: it still runs right after it called shutdown(),
\* but not between the end of a doFlush() shutdown() awaits and its continuation
HostMayRun ==
  /\ ~(shutdownPc = "wait" /\ shutdownAwaited /\ ~flushInFlight)
  /\ ~(shutdownPc = "final" /\ ~flushInFlight)

\* a cleanup that forgets the path and leaves the file
CleanupKeepsFile ==
  /\ recoveryPath' = FALSE
  /\ recovering' = recovering

\* cleanupRecoveryFile()
CleanupRecoveryFile ==
  /\ recoveryPath' = FALSE
  /\ recovering' = IF recoveryPath THEN <<>> ELSE recovering

(***************************************************************************)
(* The private-address predicate.  A string is the sequence of its          *)
(* characters.                                                              *)
(***************************************************************************)
DigitChars == <<"0", "1", "2", "3", "4", "5", "6", "7", "8", "9">>
IsDigit(c) == \E d \in DOMAIN DigitChars : DigitChars[d] = c
DigitValue(c) == (CHOOSE d \in DOMAIN DigitChars : DigitChars[d] = c) - 1

\* the character at position i, "" past the end of the string
At(s, i) == IF i \in DOMAIN s THEN s[i] ELSE ""
StartsWith(s, prefix) == IsPrefix(prefix, s)

\* the i flag of both regular expressions: letters compared in lower case
ToLower(c) ==
  CASE c = "A" -> "a" [] c = "B" -> "b" [] c = "C" -> "c" [] c = "D" -> "d"
    [] c = "E" -> "e" [] c = "F" -> "f" [] OTHER -> c
LowerCase(s) == [i \in DOMAIN s |-> ToLower(s[i])]

\* 172\.(1[6-9]|2\d|3[01])\.
Re172(s) ==
  /\ StartsWith(s, <<"1", "7", "2", ".">>)
  /\ \/ At(s, 5) = "1" /\ At(s, 6) \in {"6", "7", "8", "9"}
     \/ At(s, 5) = "2" /\ IsDigit(At(s, 6))
     \/ At(s, 5) = "3" /\ At(s, 6) \in {"0", "1"}
  /\ At(s, 7) = "."

\* 100\.(6[4-9]|[7-9]\d|1[01]\d|12[0-7])\.
Re100(s) ==
  /\ StartsWith(s, <<"1", "0", "0", ".">>)
  /\ \/ At(s, 5) = "6" /\ At(s, 6) \in {"4", "5", "6", "7", "8", "9"} /\ At(s, 7) = "."
     \/ At(s, 5) \in {"7", "8", "9"} /\ IsDigit(At(s, 6)) /\ At(s, 7) = "."
     \/ At(s, 5) = "1" /\ At(s, 6) \in {"0", "1"} /\ IsDigit(At(s, 7)) /\ At(s, 8) = "."
     \/ /\ At(s, 5) = "1" /\ At(s, 6) = "2"
        /\ At(s, 7) \in {"0", "1", "2", "3", "4", "5", "6", "7"} /\ At(s, 8) = "."

\* the n characters of s from position pos on are all c
RunOf(s, pos, n, c) == pos + n - 1 <= Len(s) /\ \A i \in pos..(pos + n - 1) : s[i] = c

\* (0{0,4}:{0,4}) seven times, then 0{0,2}1$: element k of the fourteen from
\* position pos on, and the tail after the last
RECURSIVE ReLongLoopback(_, _, _)
ReLongLoopback(s, pos, k) ==
  IF k > 14
  THEN \E n \in 0..2 : RunOf(s, pos, n, "0") /\ pos + n = Len(s) /\ At(s, pos + n) = "1"
  ELSE \E n \in 0..4 :
         /\ RunOf(s, pos, n, IF k % 2 = 1 THEN "0" ELSE ":")
         /\ ReLongLoopback(s, pos + n, k + 1)

\* what every match of that alternative looks like: zeros and colons, then 1$
ZerosAndColonsThenOne(s) ==
  /\ s # <<>> /\ s[Len(s)] = "1"
  /\ \A i \in 1..(Len(s) - 1) : s[i] \in {"0", ":"}

\* PRIVATE_IP_RE.test(ip): anchored at the start only, but for the two
\* loopback alternatives that end in $
PRIVATE_IP_RE(ip) ==
  LET s == LowerCase(ip)
  IN  \/ StartsWith(s, <<"1", "2", "7", ".">>)
      \/ StartsWith(s, <<"1", "0", ".">>)
      \/ Re172(s)
      \/ StartsWith(s, <<"1", "9", "2", ".", "1", "6", "8", ".">>)
      \/ StartsWith(s, <<"1", "6", "9", ".", "2", "5", "4", ".">>)
      \/ Re100(s)
      \/ StartsWith(s, <<"0", ".">>)
      \/ s = <<":", ":", "1">>
      \/ ZerosAndColonsThenOne(s) /\ ReLongLoopback(s, 1, 1)
      \/ StartsWith(s, <<"f", "c">>)
      \/ StartsWith(s, <<"f", "d">>)
      \/ StartsWith(s, <<"f", "e", "8", "0">>)
      \/ StartsWith(s, <<":", ":", "f", "f", "f", "f", ":">>)

\* ip.split(".")
RECURSIVE SplitDots(_)
SplitDots(s) ==
  IF \A i \in DOMAIN s : s[i] # "." THEN <<s>>
  ELSE LET dot == CHOOSE i \in DOMAIN s : s[i] = "." /\ \A j \in 1..(i - 1) : s[j] # "."
       IN  <<SubSeq(s, 1, dot - 1)>> \o SplitDots(SubSeq(s, dot + 1, Len(s)))

\* \d+
AllDigits(part) == part # <<>> /\ \A i \in DOMAIN part : IsDigit(part[i])

\* Number(part) of a string of digits
RECURSIVE ToNumber(_)
ToNumber(part) ==
  IF part = <<>> THEN 0
  ELSE 10 * ToNumber(SubSeq(part, 1, Len(part) - 1)) + DigitValue(part[Len(part)])

\* ip.match(/^::ffff:(\d+\.\d+\.\d+\.\d+)$/i): whether it matches, and group 1
V4MappedMatches(ip) ==
  /\ StartsWith(LowerCase(ip), <<":", ":", "f", "f", "f", "f", ":">>)
  /\ LET parts == SplitDots(SubSeq(ip, 8, Len(ip)))
     IN  Len(parts) = 4 /\ \A i \in 1..4 : AllDigits(parts[i])
V4MappedGroup(ip) == SubSeq(ip, 8, Len(ip))

\* net.isIPv4(ip): four decimal numbers 0..255 without leading zeros
IsOctet(part) ==
  /\ AllDigits(part) /\ Len(part) <= 3
  /\ (Len(part) > 1 => part[1] # "0")
  /\ ToNumber(part) <= 255
isIPv4(ip) ==
  LET parts == SplitDots(ip) IN Len(parts) = 4 /\ \A i \in 1..4 : IsOctet(parts[i])

\* the numeric checks on ip.split(".").map(Number)
PrivateOctets(parts) ==
  \/ parts[1] = 0
  \/ parts[1] = 10
  \/ parts[1] = 100 /\ parts[2] >= 64 /\ parts[2] <= 127
  \/ parts[1] = 127
  \/ parts[1] = 169 /\ parts[2] = 254
  \/ parts[1] = 172 /\ parts[2] >= 16 /\ parts[2] <= 31
  \/ parts[1] = 192 /\ parts[2] = 168

isPrivateIP(ip) ==
  IF PRIVATE_IP_RE(ip) THEN TRUE
  ELSE IF V4MappedMatches(ip) THEN PRIVATE_IP_RE(V4MappedGroup(ip))
  ELSE IF isIPv4(ip)
       THEN PrivateOctets([i \in 1..4 |-> ToNumber(SplitDots(ip)[i])])
       ELSE FALSE

(***************************************************************************)
(* track(): the size enforcer and the threshold trigger.                    *)
(***************************************************************************)
\* a size check applied to every event, with or without metadata
SizeEnforceChecksAll(e) ==
  IF EventBytes(e) > maxEventBytes
  THEN LET reduced == [e EXCEPT !.meta = 0]
       IN  IF EventBytes(reduced) > maxEventBytes THEN <<>> ELSE <<reduced>>
  ELSE <<e>>

\* the events track() pushes for e: e itself, e without metadata, or nothing
SizeEnforce(e) ==
  IF e.meta # 0
  THEN IF EventBytes(e) > maxEventBytes
       THEN LET reduced == [e EXCEPT !.meta = 0]
            IN  IF EventBytes(reduced) > maxEventBytes THEN <<>> ELSE <<reduced>>
       ELSE <<e>>
  ELSE <<e>>

TrackInputs(id) == [id : {id}, size : EventSizes, meta : MetaSizes]

\* events of every size, with and without metadata; method and path of any type
\* are made strings by String() and cut, which leaves an event of some size
BareSizes == {1, maxEventBytes, maxEventBytes + 1}
MetaBytes == {0, 1, maxEventBytes - 1, maxEventBytes}
SizedInputs(id) == [id : {id}, size : BareSizes, meta : MetaBytes]

\* arguments the try block of track() throws on: undefined and null (no property
\* can be set on them), an event whose metadata is circular (JSON.stringify
\* throws a TypeError), and an event whose toJSON or toString throws null
FaultyArguments == {"undefined", "null", "circular", "throws_null"}
Thrown(x) == IF x = "throws_null" THEN "null" ELSE "TypeError"

\* onInternalError(err): with debug on it reads err.message for the log line
onInternalError(err) == IF options.debug /\ err = "null" THEN "throws" ELSE "returns"

(***************************************************************************)
(* flush(): the guards, then the drain of one batch into a doFlush().       *)
(***************************************************************************)
\* flush() without the single-flight guard
FlushIgnoresInFlight(buf) ==
  \/ Len(buf) = 0
  \/ (consecutiveFailures > 0 /\ now < backoffUntil)

\* flush() without the backoff check
FlushIgnoresBackoff(buf) == Len(buf) = 0 \/ flushInFlight

\* the two early returns of flush(), evaluated on the buffer buf
FlushReturnsEarly(buf) ==
  \/ Len(buf) = 0 \/ flushInFlight
  \/ (consecutiveFailures > 0 /\ now < backoffUntil)

\* a drain that takes the newest events of the buffer
DrainBatchFromEnd(buf) ==
  SubSeq(buf, Len(buf) - Min(Len(buf), batchSize) + 1, Len(buf))

\* this.buffer.splice(0, this.batchSize): what it returns, and what it leaves
DrainBatch(buf) == SubSeq(buf, 1, Min(Len(buf), batchSize))
DrainRest(buf) == SubSeq(buf, Min(Len(buf), batchSize) + 1, Len(buf))

\* a doFlush(events) invocation: where it is suspended, which failure path it
\* took, what persistToDiskAsync did, the counters flush() saw when it began, and
\* the calls it made of the onError callback
NewFlight(events) ==
  [events |-> events, pc |-> "send", branch |-> "none", disk |-> "none",
   failures0 |-> consecutiveFailures, backoff0 |-> backoffUntil, onError |-> 0,
   message |-> "none"]

NoFlight ==
  [events |-> <<>>, pc |-> "none", branch |-> "none", disk |-> "none",
   failures0 |-> 0, backoff0 |-> 0, onError |-> 0, message |-> "none"]

\* a call of flush() when the buffer holds buf
FlushCall(buf) ==
  IF FlushReturnsEarly(buf)
  THEN /\ buffer' = buf
       /\ lastFlight' = NoFlight
       /\ UNCHANGED <<flushInFlight, inFlight>>
  ELSE /\ flushInFlight' = TRUE
       /\ buffer' = DrainRest(buf)
       /\ inFlight' = inFlight \cup {NewFlight(DrainBatch(buf))}
       /\ lastFlight' = NewFlight(DrainBatch(buf))

\* track() triggering the flush only above batchSize
TrackTriggersAbove(e) ==
  /\ HostMayRun
  /\ UNCHANGED <<recoveryVars, procVars, sendVars>>
  /\ nextId <= MaxEvents
  /\ e.id = nextId
  /\ nextId' = nextId + 1
  /\ LET pushed == SizeEnforce(e)
     IN  IF pushed = <<>>
         THEN /\ lastFlight' = NoFlight
              /\ UNCHANGED <<buffer, flushInFlight, inFlight, admitted>>
         ELSE /\ admitted' = admitted \cup {e.id}
              /\ IF Len(buffer \o pushed) > batchSize
                 THEN FlushCall(buffer \o pushed)
                 ELSE /\ buffer' = buffer \o pushed
                      /\ lastFlight' = NoFlight
                      /\ UNCHANGED <<flushInFlight, inFlight>>
  /\ lastOp' = "track"
  /\ UNCHANGED <<consecutiveFailures, backoffUntil, spool, now, acked, diskError>>

Track(e) ==
  /\ HostMayRun
  /\ UNCHANGED <<recoveryVars, procVars, sendVars>>
  /\ nextId <= MaxEvents
  /\ e.id = nextId
  /\ nextId' = nextId + 1
  /\ LET pushed == SizeEnforce(e)
     IN  IF pushed = <<>>
         THEN /\ lastFlight' = NoFlight
              /\ UNCHANGED <<buffer, flushInFlight, inFlight, admitted>>
         ELSE /\ admitted' = admitted \cup {e.id}
              /\ IF Len(buffer \o pushed) >= batchSize
                 THEN FlushCall(buffer \o pushed)
                 ELSE /\ buffer' = buffer \o pushed
                      /\ lastFlight' = NoFlight
                      /\ UNCHANGED <<flushInFlight, inFlight>>
  /\ lastOp' = "track"
  /\ UNCHANGED <<consecutiveFailures, backoffUntil, spool, now, acked, diskError>>

\* track() on an argument its try block throws on before the push: the catch
\* block hands the exception to onInternalError()
TrackFaulty(x) ==
  /\ HostMayRun
  /\ UNCHANGED <<recoveryVars, procVars, sendVars>>
  /\ lastOp' = IF onInternalError(Thrown(x)) = "throws" THEN "track_throw" ELSE "track_caught"
  /\ lastFlight' = NoFlight
  /\ UNCHANGED <<buffer, flushInFlight, consecutiveFailures, backoffUntil, inFlight, spool,
                 now, nextId, admitted, acked, diskError>>

\* the host awaits client.flush()
Flush ==
  /\ HostMayRun
  /\ UNCHANGED <<recoveryVars, procVars, sendVars>>
  /\ FlushCall(buffer)
  /\ lastOp' = "flush"
  /\ UNCHANGED <<consecutiveFailures, backoffUntil, spool, now, nextId, admitted, acked,
                 diskError>>

\* the setInterval callback of startTimer()
TimerTick ==
  /\ EventLoopTurn
  /\ timer
  /\ UNCHANGED <<recoveryVars, procVars, sendVars>>
  /\ FlushCall(buffer)
  /\ lastOp' = "tick"
  /\ UNCHANGED <<consecutiveFailures, backoffUntil, spool, now, nextId, admitted, acked,
                 diskError>>

(***************************************************************************)
(* send(): how the promise settles for an outcome of the transport.         *)
(***************************************************************************)
Settle(o) ==
  IF o.kind = "response" /\ o.status >= 200 /\ o.status < 300 THEN "resolve" ELSE "reject"

\* a rejection tagged retryable for every 5xx status
RetryableTagAll5xx(o) ==
  IF o.kind = "response"
  THEN IF o.status = 429 \/ o.status >= 500 THEN "true" ELSE "false"
  ELSE "undefined"

\* the retryable field of the rejection: a transport error carries none
RetryableTag(o) ==
  IF o.kind = "response"
  THEN IF o.status \in RETRYABLE_STATUS_CODES THEN "true" ELSE "false"
  ELSE "undefined"

\* a rejection that is retried only when the response named no Retry-After
IsRetryableWithoutHeader(o) == RetryableTag(o) # "false" /\ o.retryAfter = "absent"

\* what the message of the rejection says beyond the status and the body:
\* if (retryAfter) message += ` (Retry-After: ${retryAfter})`
ErrorMessage(o) == o.retryAfter

\* (err as any).retryable !== false
IsRetryable(o) == RetryableTag(o) # "false"

(***************************************************************************)
(* send() followed through its phases: the request is out and the deadline  *)
(* timer armed; the response callback; the body of a non-2xx response.      *)
(***************************************************************************)
\* what the promise of send() settles with for the outcome o
Settled(o) ==
  [settled |-> Settle(o),
   retryable |-> IF Settle(o) = "reject" THEN RetryableTag(o) ELSE "none"]

Unsettled == [settled |-> "none", retryable |-> "none"]

\* everything but the send() followed and the clock stays as it is
SendFrame ==
  UNCHANGED <<buffer, flushInFlight, consecutiveFailures, backoffUntil, inFlight, spool,
              nextId, admitted, acked, diskError, lastFlight, recoveryVars, procVars,
              sendStart>>

\* the response callback: clearTimeout, then resolve on 2xx or read the body
SendResponse(status) ==
  /\ sendPhase = "request"
  /\ sendTimer' = FALSE
  /\ sendOutcome' = [kind |-> "response", status |-> status]
  /\ IF Settle(sendOutcome') = "resolve"
     THEN sendPhase' = "settled" /\ sendResult' = Settled(sendOutcome')
     ELSE sendPhase' = "body" /\ sendResult' = Unsettled
  /\ lastOp' = "send_response"
  /\ SendFrame /\ UNCHANGED now

\* res.on("end"): reject with the retryable field set from the status
SendBodyEnd ==
  /\ sendPhase = "body"
  /\ sendPhase' = "settled"
  /\ sendResult' = Settled(sendOutcome)
  /\ lastOp' = "send_end"
  /\ SendFrame /\ UNCHANGED <<now, sendOutcome, sendTimer>>

\* res.on("error"): the body read failed, reject on the status alone
SendBodyError ==
  /\ sendPhase = "body"
  /\ sendPhase' = "settled"
  /\ sendResult' = Settled(sendOutcome)
  /\ lastOp' = "send_body_error"
  /\ SendFrame /\ UNCHANGED <<now, sendOutcome, sendTimer>>

\* req.on("error") before any response: clearTimeout, reject(err)
SendRequestError ==
  /\ sendPhase = "request"
  /\ sendTimer' = FALSE
  /\ sendOutcome' = [kind |-> "error", status |-> 0]
  /\ sendPhase' = "settled"
  /\ sendResult' = Settled(sendOutcome')
  /\ lastOp' = "send_error"
  /\ SendFrame /\ UNCHANGED now

\* the deadline timer fires: ac.abort() makes the request emit an error
SendAbort ==
  /\ sendPhase = "request"
  /\ sendTimer /\ now >= sendStart + SEND_TIMEOUT_MS
  /\ sendTimer' = FALSE
  /\ sendOutcome' = [kind |-> "error", status |-> 0]
  /\ sendPhase' = "settled"
  /\ sendResult' = Settled(sendOutcome')
  /\ lastOp' = "send_abort"
  /\ SendFrame /\ UNCHANGED now

\* time passes for a pending send(); an armed timer fires when it is due
SendClock(dt) ==
  /\ sendPhase \in {"request", "body"}
  /\ now + dt <= MaxNow
  /\ sendTimer => now + dt <= sendStart + SEND_TIMEOUT_MS
  /\ now' = now + dt
  /\ lastOp' = "send_clock"
  /\ SendFrame /\ UNCHANGED <<sendPhase, sendOutcome, sendResult, sendTimer>>

(***************************************************************************)
(* doFlush(): the continuation after send() settles.                        *)
(***************************************************************************)
\* a jittered delay that does not grow with the failure count
BackoffDelayFlat(n, r) == (BASE_BACKOFF_MS * (4 + r)) \div 8

\* a delay of no length
BackoffDelayNone(n, r) == 0

\* base * (0.5 + Math.random() * 0.5) after the n-th failure, r in quarters
BackoffDelay(n, r) == (BASE_BACKOFF_MS * (2 ^ (n - 1)) * (4 + r)) \div 8

\* the backoff block run with the count the failure reached, reset or not
BackoffAlways(n, r) ==
  now + BackoffDelay(IF n > 0 THEN n ELSE MAX_CONSECUTIVE_FAILURES, r)

\* the backoff block that ends the retryable path, reading the counter n
BackoffAfter(n, r) == IF n > 0 THEN now + BackoffDelay(n, r) ELSE backoffUntil

\* re-insert only up to the remaining capacity
Reinsert(events, buf) ==
  LET capacity == maxBufferSize - Len(buf)
  IN  IF capacity > 0 THEN SubSeq(events, 1, Min(Len(events), capacity)) \o buf ELSE buf

\* the success path resetting the counter but leaving the backoff deadline
SendSuccessKeepsBackoff(t, o) ==
  /\ EventLoopTurn
  /\ CleanupRecoveryFile
  /\ UNCHANGED <<procVars, sendVars>>
  /\ t \in inFlight /\ t.pc = "send"
  /\ Settle(o) = "resolve"
  /\ consecutiveFailures' = 0
  /\ flushInFlight' = FALSE
  /\ inFlight' = inFlight \ {t}
  /\ acked' = acked \cup Ids(t.events)
  /\ lastOp' = "success"
  /\ lastFlight' = t
  /\ UNCHANGED <<buffer, backoffUntil, spool, now, nextId, admitted, diskError>>

SendSuccess(t, o) ==
  /\ EventLoopTurn
  /\ CleanupRecoveryFile
  /\ UNCHANGED <<procVars, sendVars>>
  /\ t \in inFlight /\ t.pc = "send"
  /\ Settle(o) = "resolve"
  /\ consecutiveFailures' = 0
  /\ backoffUntil' = 0
  /\ flushInFlight' = FALSE
  /\ inFlight' = inFlight \ {t}
  /\ acked' = acked \cup Ids(t.events)
  /\ lastOp' = "success"
  /\ lastFlight' = t
  /\ UNCHANGED <<buffer, spool, now, nextId, admitted, diskError>>

\* the callback called outside a try: its exception leaves the catch block
CallOnErrorUnguarded ==
  [calls |-> IF options.onError = "none" THEN 0 ELSE 1,
   escapes |-> options.onError = "throws"]

\* if (this.onError) { try { this.onError(err) } catch {} }: the calls made of
\* the callback, and whether an exception it throws leaves the try
CallOnError ==
  [calls |-> IF options.onError = "none" THEN 0 ELSE 1, escapes |-> FALSE]

Notified(t) == [t EXCEPT !.onError = @ + CallOnError.calls]

\* an exception leaves the catch block of doFlush(): the finally block runs and
\* the promise of doFlush() rejects
DoFlushRejects(t) ==
  /\ flushInFlight' = FALSE
  /\ inFlight' = inFlight \ {t}
  /\ lastOp' = "flush_rejected"
  /\ lastFlight' = Notified(t)
  /\ UNCHANGED <<buffer, consecutiveFailures, backoffUntil>>

\* the non-retryable path spending the retry budget
SendNonRetryableCounts(t, o) ==
  /\ EventLoopTurn
  /\ UNCHANGED <<recoveryVars, procVars, sendVars>>
  /\ t \in inFlight /\ t.pc = "send"
  /\ Settle(o) = "reject" /\ ~IsRetryable(o)
  /\ IF CallOnError.escapes THEN DoFlushRejects(t)
     ELSE LET u == [Notified(t) EXCEPT !.pc = "stat", !.branch = "nonretry",
                                       !.message = ErrorMessage(o)]
          IN  /\ consecutiveFailures' = consecutiveFailures + 1
              /\ inFlight' = (inFlight \ {t}) \cup {u}
              /\ lastOp' = "nonretry"
              /\ lastFlight' = u
              /\ UNCHANGED <<buffer, flushInFlight, backoffUntil>>
  /\ UNCHANGED <<spool, now, nextId, admitted, acked, diskError>>

\* non-retryable rejection: doFlush() awaits persistToDiskAsync(events);
\* message is what the error handed to onError says
SendNonRetryableSaying(t, o, message) ==
  /\ EventLoopTurn
  /\ UNCHANGED <<recoveryVars, procVars, sendVars>>
  /\ t \in inFlight /\ t.pc = "send"
  /\ Settle(o) = "reject" /\ ~IsRetryable(o)
  /\ IF CallOnError.escapes THEN DoFlushRejects(t)
     ELSE LET u == [Notified(t) EXCEPT !.pc = "stat", !.branch = "nonretry",
                                       !.message = message]
          IN  /\ inFlight' = (inFlight \ {t}) \cup {u}
              /\ lastOp' = "nonretry"
              /\ lastFlight' = u
              /\ UNCHANGED <<buffer, flushInFlight, consecutiveFailures, backoffUntil>>
  /\ UNCHANGED <<spool, now, nextId, admitted, acked, diskError>>

SendNonRetryable(t, o) == SendNonRetryableSaying(t, o, ErrorMessage(o))

\* retryable rejection below the failure limit: re-insert and back off
SendRetrySaying(t, o, r, message) ==
  /\ EventLoopTurn
  /\ UNCHANGED <<recoveryVars, procVars, sendVars>>
  /\ t \in inFlight /\ t.pc = "send"
  /\ Settle(o) = "reject" /\ IsRetryable(o)
  /\ consecutiveFailures + 1 < MAX_CONSECUTIVE_FAILURES
  /\ IF CallOnError.escapes THEN DoFlushRejects(t)
     ELSE /\ consecutiveFailures' = consecutiveFailures + 1
          /\ buffer' = Reinsert(t.events, buffer)
          /\ backoffUntil' = BackoffAfter(consecutiveFailures + 1, r)
          /\ flushInFlight' = FALSE
          /\ inFlight' = inFlight \ {t}
          /\ lastOp' = "retry"
          /\ lastFlight' = [Notified(t) EXCEPT !.message = message]
  /\ UNCHANGED <<spool, now, nextId, admitted, acked, diskError>>

SendRetry(t, o, r) == SendRetrySaying(t, o, r, ErrorMessage(o))

\* retryable rejection that reaches the limit: doFlush() awaits persistToDiskAsync
SendSpillSaying(t, o, message) ==
  /\ EventLoopTurn
  /\ UNCHANGED <<recoveryVars, procVars, sendVars>>
  /\ t \in inFlight /\ t.pc = "send"
  /\ Settle(o) = "reject" /\ IsRetryable(o)
  /\ consecutiveFailures + 1 >= MAX_CONSECUTIVE_FAILURES
  /\ IF CallOnError.escapes THEN DoFlushRejects(t)
     ELSE LET u == [Notified(t) EXCEPT !.pc = "stat", !.branch = "spill",
                                       !.message = message]
          IN  /\ consecutiveFailures' = consecutiveFailures + 1
              /\ inFlight' = (inFlight \ {t}) \cup {u}
              /\ lastOp' = "spill"
              /\ lastFlight' = u
              /\ UNCHANGED <<buffer, flushInFlight, backoffUntil>>
  /\ UNCHANGED <<spool, now, nextId, admitted, acked, diskError>>

\* a spill that gives up the single-flight flag before it writes
SendSpillDropsFlag(t, o) ==
  /\ EventLoopTurn
  /\ UNCHANGED <<recoveryVars, procVars, sendVars>>
  /\ t \in inFlight /\ t.pc = "send"
  /\ Settle(o) = "reject" /\ IsRetryable(o)
  /\ consecutiveFailures + 1 >= MAX_CONSECUTIVE_FAILURES
  /\ LET u == [Notified(t) EXCEPT !.pc = "stat", !.branch = "spill",
                                  !.message = ErrorMessage(o)]
     IN  /\ consecutiveFailures' = consecutiveFailures + 1
         /\ flushInFlight' = FALSE
         /\ inFlight' = (inFlight \ {t}) \cup {u}
         /\ lastOp' = "spill"
         /\ lastFlight' = u
         /\ UNCHANGED <<buffer, backoffUntil>>
  /\ UNCHANGED <<spool, now, nextId, admitted, acked, diskError>>

SendSpill(t, o) == SendSpillSaying(t, o, ErrorMessage(o))

(***************************************************************************)
(* persistToDiskAsync(): open and fstat, write, close.                      *)
(***************************************************************************)
Moved(t, pc, disk) == [t EXCEPT !.pc = pc, !.disk = disk]
Step(t, pc, disk) == (inFlight \ {t}) \cup {Moved(t, pc, disk)}

\* a size check that lets a file of exactly maxStorageBytes grow
StorageFullAbove(lines) == FileBytes(lines) > maxStorageBytes

\* stat.size >= this.maxStorageBytes
StorageFull(lines) == FileBytes(lines) >= maxStorageBytes

PersistSkip(t) ==
  /\ EventLoopTurn
  /\ UNCHANGED <<recoveryVars, procVars, sendVars>>
  /\ t \in inFlight /\ t.pc = "stat"
  /\ StorageFull(spool)
  /\ inFlight' = Step(t, "close", "skipped")
  /\ lastOp' = "persist_skip"
  /\ lastFlight' = Moved(t, "close", "skipped")
  /\ UNCHANGED <<buffer, flushInFlight, consecutiveFailures, backoffUntil, spool, now,
                 nextId, admitted, acked, diskError>>

PersistStat(t) ==
  /\ EventLoopTurn
  /\ UNCHANGED <<recoveryVars, procVars, sendVars>>
  /\ t \in inFlight /\ t.pc = "stat"
  /\ ~StorageFull(spool)
  /\ inFlight' = Step(t, "write", "none")
  /\ lastOp' = "persist_stat"
  /\ lastFlight' = Moved(t, "write", "none")
  /\ UNCHANGED <<buffer, flushInFlight, consecutiveFailures, backoffUntil, spool, now,
                 nextId, admitted, acked, diskError>>

PersistWrite(t) ==
  /\ EventLoopTurn
  /\ UNCHANGED <<recoveryVars, procVars, sendVars>>
  /\ t \in inFlight /\ t.pc = "write"
  /\ spool' = Append(spool, t.events)
  /\ inFlight' = Step(t, "close", "written")
  /\ lastOp' = "persist_write"
  /\ lastFlight' = Moved(t, "close", "written")
  /\ UNCHANGED <<buffer, flushInFlight, consecutiveFailures, backoffUntil, now, nextId,
                 admitted, acked, diskError>>

\* open, fstat or write throws: the catch block swallows the error
PersistError(t) ==
  /\ EventLoopTurn
  /\ UNCHANGED <<recoveryVars, procVars, sendVars>>
  /\ t \in inFlight /\ t.pc \in {"stat", "write"}
  /\ diskError' = TRUE
  /\ inFlight' = Step(t, "close", "failed")
  /\ lastOp' = "persist_error"
  /\ lastFlight' = Moved(t, "close", "failed")
  /\ UNCHANGED <<buffer, flushInFlight, consecutiveFailures, backoffUntil, spool, now,
                 nextId, admitted, acked>>

\* persistToDiskAsync() returned on the non-retryable path
FinishNonRetryable(t) ==
  /\ EventLoopTurn
  /\ UNCHANGED <<recoveryVars, procVars, sendVars>>
  /\ t \in inFlight /\ t.pc = "close" /\ t.branch = "nonretry"
  /\ flushInFlight' = FALSE
  /\ inFlight' = inFlight \ {t}
  /\ lastOp' = "nonretry_done"
  /\ lastFlight' = t
  /\ UNCHANGED <<buffer, consecutiveFailures, backoffUntil, spool, now, nextId, admitted,
                 acked, diskError>>

\* the spill path without the reset of the counter
FinishSpillKeepsCount(t, r) ==
  /\ EventLoopTurn
  /\ UNCHANGED <<recoveryVars, procVars, sendVars>>
  /\ t \in inFlight /\ t.pc = "close" /\ t.branch = "spill"
  /\ backoffUntil' = BackoffAfter(consecutiveFailures, r)
  /\ flushInFlight' = FALSE
  /\ inFlight' = inFlight \ {t}
  /\ lastOp' = "spill_done"
  /\ lastFlight' = t
  /\ UNCHANGED <<buffer, consecutiveFailures, spool, now, nextId, admitted, acked,
                 diskError>>

\* persistToDiskAsync() returned after the failure limit: reset, backoff block
FinishSpill(t, r) ==
  /\ EventLoopTurn
  /\ UNCHANGED <<recoveryVars, procVars, sendVars>>
  /\ t \in inFlight /\ t.pc = "close" /\ t.branch = "spill"
  /\ consecutiveFailures' = 0
  /\ backoffUntil' = BackoffAfter(0, r)
  /\ flushInFlight' = FALSE
  /\ inFlight' = inFlight \ {t}
  /\ lastOp' = "spill_done"
  /\ lastFlight' = t
  /\ UNCHANGED <<buffer, spool, now, nextId, admitted, acked, diskError>>

(***************************************************************************)
(* persistToDiskSync() and loadFromDisk().  A file that does not exist and  *)
(* a file without content are one value, <<>>: loadFromDisk() unlinks an    *)
(* empty source and loads nothing from it.                                  *)
(***************************************************************************)
\* a synchronous write without the size check
PersistToDiskSyncNoCap(events, lines, fails) ==
  IF events = <<>> THEN [lines |-> lines, disk |-> "none"]
  ELSE IF fails THEN [lines |-> lines, disk |-> "failed"]
  ELSE [lines |-> Append(lines, events), disk |-> "written"]

\* persistToDiskSync(events) on a file holding lines; fails: open, fstat or write
\* throws, which the catch block swallows
PersistToDiskSync(events, lines, fails) ==
  IF events = <<>> THEN [lines |-> lines, disk |-> "none"]
  ELSE IF fails THEN [lines |-> lines, disk |-> "failed"]
  ELSE IF StorageFull(lines) THEN [lines |-> lines, disk |-> "skipped"]
  ELSE [lines |-> Append(lines, events), disk |-> "written"]

\* events earlier processes left on disk
RecoveredEvent(i) == [id |-> i, size |-> 1, meta |-> 0]

\* a line JSON.parse() throws on, such as one cut short by a crash in mid-write
CorruptLine == <<[id |-> 0, size |-> 1, meta |-> 0]>>
ParseFails(line) == \E i \in DOMAIN line : line[i].id = 0

\* the inner loop pushing every event of a line, whatever the buffer holds
PushLineIgnoresCap(buf, line) == IF ParseFails(line) THEN buf ELSE buf \o line

\* the inner loop of loadFromDisk(): push the events of one line up to the cap
PushLine(buf, line) ==
  IF ParseFails(line) THEN buf
  ELSE LET room == IF maxBufferSize > Len(buf) THEN maxBufferSize - Len(buf) ELSE 0
       IN  buf \o SubSeq(line, 1, Min(Len(line), room))

\* the outer loop of loadFromDisk(): line by line until the buffer is full
RECURSIVE LoadLines(_, _)
LoadLines(lines, buf) ==
  IF lines = <<>> THEN buf
  ELSE LET b == PushLine(buf, Head(lines))
       IN  IF Len(b) >= maxBufferSize THEN b ELSE LoadLines(Tail(lines), b)

\* a file as existsSync() and readFileSync() show it to loadFromDisk()
NoFile == [exists |-> FALSE, lines |-> <<>>]
EmptyFile == [exists |-> TRUE, lines |-> <<>>]
FileOf(lines) == [exists |-> lines # <<>>, lines |-> lines]

\* the source picked with the primary file first
SourcePrimaryFirst(primary, recov) ==
  IF primary.exists THEN "primary" ELSE IF recov.exists THEN "recovering" ELSE "none"

\* the source loadFromDisk() reads: the .recovering file, else the primary file
Source(primary, recov) ==
  IF recov.exists THEN "recovering" ELSE IF primary.exists THEN "primary" ELSE "none"

\* loadFromDisk() in a new client: the source, the buffer, the lines of both
\* files afterwards and whether the recovery path is recorded
LoadFromDisk(primary, recov) ==
  LET source == Source(primary, recov)
      content == IF source = "recovering" THEN recov.lines ELSE primary.lines
  IN  IF source = "none"
      THEN [source |-> source, buffer |-> <<>>, primary |-> primary.lines,
            recovering |-> recov.lines, recoveryPath |-> FALSE]
      ELSE IF content = <<>>
      THEN [source |-> source, buffer |-> <<>>,
            primary |-> IF source = "primary" THEN <<>> ELSE primary.lines,
            recovering |-> IF source = "recovering" THEN <<>> ELSE recov.lines,
            recoveryPath |-> FALSE]
      ELSE [source |-> source, buffer |-> LoadLines(content, <<>>),
            primary |-> IF source = "primary" THEN <<>> ELSE primary.lines,
            recovering |-> IF source = "primary" THEN primary.lines ELSE recov.lines,
            recoveryPath |-> TRUE]

(***************************************************************************)
(* Signal handlers, shutdown() and shutdownSync().                          *)
(***************************************************************************)
Signals == {"SIGTERM", "SIGINT"}

\* the handlers registerSignalHandlers() installs for this client, and those of
\* another client living in the same process
OwnHandlers == {[signal |-> s, client |-> "this"] : s \in Signals}
OtherHandlers == {[signal |-> s, client |-> "other"] : s \in Signals}

\* removal by signal name instead of by handler
RemoveAllSignalListeners ==
  /\ listeners' = {h \in listeners : h.signal \notin {g.signal : g \in signalHandlers}}
  /\ signalHandlers' = {}

\* removeSignalHandlers()
RemoveSignalHandlers ==
  /\ listeners' = listeners \ signalHandlers
  /\ signalHandlers' = {}

\* what a synchronous spill did, in the shape of a doFlush() record
SpillRecord(events, disk) ==
  [events |-> events, pc |-> "none", branch |-> "shutdown", disk |-> disk,
   failures0 |-> consecutiveFailures, backoff0 |-> backoffUntil, onError |-> 0,
   message |-> "none"]

\* a spill of one batch only, the rest staying in the buffer
FinalSpillOneBatch(fails) ==
  LET r == PersistToDiskSync(DrainBatch(buffer), spool, fails)
  IN  /\ buffer' = DrainRest(buffer)
      /\ spool' = r.lines
      /\ diskError' = (diskError \/ r.disk = "failed")
      /\ lastFlight' = SpillRecord(DrainBatch(buffer), r.disk)
      /\ agentDestroyed' = TRUE

\* if (this.buffer.length > 0) persistToDiskSync(this.buffer.splice(0)); agent.destroy()
FinalSpill(fails) ==
  LET r == PersistToDiskSync(buffer, spool, fails)
  IN  /\ buffer' = <<>>
      /\ spool' = r.lines
      /\ diskError' = (diskError \/ r.disk = "failed")
      /\ lastFlight' = SpillRecord(buffer, r.disk)
      /\ agentDestroyed' = TRUE

\* shutdown() up to its first await
ShutdownCall ==
  /\ shutdownPc = "idle"
  /\ HostMayRun
  /\ RemoveSignalHandlers
  /\ timer' = FALSE
  /\ shutdownPc' = "wait"
  /\ shutdownAwaited' = flushInFlight
  /\ lastOp' = "shutdown"
  /\ lastFlight' = NoFlight
  /\ UNCHANGED <<buffer, flushInFlight, consecutiveFailures, backoffUntil, inFlight, spool,
                 now, nextId, admitted, acked, diskError, recoveryVars, recovered, loadSource,
                 agentDestroyed, pid, options, lookup, query,
                 sendVars>>

\* shutdown() resuming at once, whether or not the awaited doFlush() has returned
ShutdownResumesAtOnce == shutdownPc = "wait"

\* await this.flushPromise has returned
ShutdownMayResume == shutdownPc = "wait" /\ (~shutdownAwaited \/ ~flushInFlight)

\* shutdown() from the first await on: the final flush(), and when that starts no
\* doFlush(), the spill and the end of shutdown()
ShutdownResume(fails) ==
  /\ ShutdownMayResume
  /\ IF FlushReturnsEarly(buffer)
     THEN /\ FinalSpill(fails)
          /\ shutdownPc' = "done"
          /\ lastOp' = "shutdown_done"
          /\ UNCHANGED <<flushInFlight, inFlight>>
     ELSE /\ FlushCall(buffer)
          /\ shutdownPc' = "final"
          /\ lastOp' = "shutdown_flush"
          /\ UNCHANGED <<spool, diskError, agentDestroyed>>
  /\ UNCHANGED <<consecutiveFailures, backoffUntil, now, nextId, admitted, acked,
                 recoveryVars, recovered, loadSource, timer, signalHandlers, listeners,
                 shutdownAwaited, pid, options, lookup, query,
                 sendVars>>

\* shutdown() after the final flush() has returned
ShutdownFinish(fails) ==
  /\ shutdownPc = "final" /\ ~flushInFlight
  /\ FinalSpill(fails)
  /\ shutdownPc' = "done"
  /\ lastOp' = "shutdown_done"
  /\ UNCHANGED <<flushInFlight, consecutiveFailures, backoffUntil, inFlight, now, nextId,
                 admitted, acked, recoveryVars, recovered, loadSource, timer, signalHandlers,
                 listeners, shutdownAwaited, pid, options, lookup, query,
                 sendVars>>

\* the handler of SIGTERM or SIGINT: shutdownSync()
Signal(s, fails) ==
  /\ EventLoopTurn
  /\ [signal |-> s, client |-> "this"] \in listeners
  /\ RemoveSignalHandlers
  /\ timer' = FALSE
  /\ FinalSpill(fails)
  /\ lastOp' = "signal"
  /\ UNCHANGED <<flushInFlight, consecutiveFailures, backoffUntil, inFlight, now, nextId,
                 admitted, acked, recoveryVars, recovered, loadSource, shutdownPc, shutdownAwaited,
                 pid, options, lookup, query,
                 sendVars>>

\* the process stops; the next one builds a client on the same storage path
Restart ==
  /\ pid < MaxProcesses
  /\ pid' = pid + 1
  /\ LET c == LoadFromDisk(FileOf(spool), FileOf(recovering))
     IN  /\ buffer' = c.buffer
         /\ recovered' = c.buffer
         /\ loadSource' = c.source
         /\ spool' = c.primary
         /\ recovering' = c.recovering
         /\ recoveryPath' = c.recoveryPath
  /\ flushInFlight' = FALSE
  /\ consecutiveFailures' = 0
  /\ backoffUntil' = 0
  /\ inFlight' = {}
  /\ admitted' = {}
  /\ acked' = {}
  /\ timer' = TRUE
  /\ signalHandlers' = OwnHandlers
  /\ listeners' = OtherHandlers \cup OwnHandlers
  /\ agentDestroyed' = FALSE
  /\ shutdownPc' = "idle"
  /\ shutdownAwaited' = FALSE
  /\ lastOp' = "restart"
  /\ lastFlight' = NoFlight
  /\ UNCHANGED <<now, nextId, diskError, options, lookup, query,
                 sendVars>>

(***************************************************************************)
(* The constructor: validation of the endpoint and the API key, then        *)
(* loadFromDisk(), startTimer() and registerSignalHandlers(); and the       *)
(* resolver hook it installs on the agent.                                  *)
(***************************************************************************)
\* url.hostname.replace(/^\[|\]$/g, "")
BareHostname(hostname) ==
  LET first == IF At(hostname, 1) = "[" THEN 2 ELSE 1
      last == IF hostname # <<>> /\ hostname[Len(hostname)] = "]"
              THEN Len(hostname) - 1 ELSE Len(hostname)
  IN  SubSeq(hostname, first, last)

isLocalhost(bareHostname) == bareHostname = <<"l", "o", "c", "a", "l", "h", "o", "s", "t">> \/ bareHostname = <<"1", "2", "7", ".", "0", ".", "0", ".", "1">>

\* the checks of the constructor in their order: "ok", or the error it throws
Validate(o) ==
  IF ~o.endpoint.given THEN "endpoint_required"
  ELSE IF ~o.endpoint.parses THEN "invalid_url"
  ELSE LET bareHostname == BareHostname(o.endpoint.hostname)
       IN  IF o.endpoint.scheme # "https" /\ ~isLocalhost(bareHostname)
           THEN "https_required"
           ELSE IF ~isLocalhost(bareHostname) /\ isPrivateIP(bareHostname)
           THEN "private_address"
           ELSE IF o.apiKey.type # "string" \/ o.apiKey.chars = <<>>
           THEN "apikey_required"
           ELSE IF \E i \in DOMAIN o.apiKey.chars : o.apiKey.chars[i] \in {"CR", "LF", "NUL"}
           THEN "apikey_invalid"
           ELSE "ok"

\* new ApiDashClient(options) in a process that has built no client yet
Construct ==
  /\ lastOp = "new"
  /\ IF Validate(options) = "ok"
     THEN /\ LET c == LoadFromDisk(FileOf(spool), FileOf(recovering))
             IN  /\ buffer' = c.buffer
                 /\ recovered' = c.buffer
                 /\ loadSource' = c.source
                 /\ spool' = c.primary
                 /\ recovering' = c.recovering
                 /\ recoveryPath' = c.recoveryPath
          /\ timer' = TRUE
          /\ signalHandlers' = OwnHandlers
          /\ listeners' = listeners \cup OwnHandlers
          /\ lastOp' = "init"
     ELSE /\ lastOp' = "construct_throw"
          /\ UNCHANGED <<buffer, recovered, loadSource, spool, recovering, recoveryPath, timer,
                         signalHandlers, listeners>>
  /\ lastFlight' = NoFlight
  /\ UNCHANGED <<flushInFlight, consecutiveFailures, backoffUntil, inFlight, now, nextId,
                 admitted, acked, diskError, agentDestroyed, shutdownPc, shutdownAwaited, pid,
                 options, lookup, query,
                 sendVars>>

Constructed == lastOp \notin {"new", "construct_throw"}

\* the resolver hook before its first call: nothing answered, nothing cached
NoAddress == [kind |-> "none", chars |-> <<>>]
NoLookup ==
  [verdict |-> "none", address |-> NoAddress, cached |-> FALSE, cacheAddress |-> NoAddress,
   expires |-> 0]

\* agentOpts.lookup is set unless the endpoint is the localhost exception
HookInstalled == ~isLocalhost(BareHostname(options.endpoint.hostname))

\* a hook whose cache entry still serves at the moment it expires
SsrfSafeLookupServesAtExpiry(answer) ==
  IF lookup.cached /\ now <= lookup.expires
  THEN [lookup EXCEPT !.verdict = "cached", !.address = lookup.cacheAddress]
  ELSE IF answer.kind = "error"
  THEN [lookup EXCEPT !.verdict = "dns_error", !.address = NoAddress]
  ELSE IF answer.kind = "string" /\ isPrivateIP(answer.chars)
  THEN [lookup EXCEPT !.verdict = "ssrf", !.address = answer]
  ELSE [verdict |-> "fresh", address |-> answer, cached |-> TRUE, cacheAddress |-> answer,
        expires |-> now + DNS_CACHE_TTL_MS]

\* ssrfSafeLookup(hostname, opts, callback) for the hostname of the endpoint;
\* answer: what dns.lookup() would call back with
ssrfSafeLookup(answer) ==
  IF lookup.cached /\ now < lookup.expires
  THEN [lookup EXCEPT !.verdict = "cached", !.address = lookup.cacheAddress]
  ELSE IF answer.kind = "error"
  THEN [lookup EXCEPT !.verdict = "dns_error", !.address = NoAddress]
  ELSE IF answer.kind = "string" /\ isPrivateIP(answer.chars)
  THEN [lookup EXCEPT !.verdict = "ssrf", !.address = answer]
  ELSE [verdict |-> "fresh", address |-> answer, cached |-> TRUE, cacheAddress |-> answer,
        expires |-> now + DNS_CACHE_TTL_MS]

\* the agent resolves a host that is a name, never one that is an address
NeedsResolving ==
  /\ At(options.endpoint.hostname, 1) # "["
  /\ ~isIPv4(options.endpoint.hostname)

\* the agent opens a socket and asks the hook for the address
Lookup(answer) ==
  /\ Constructed /\ HookInstalled /\ NeedsResolving
  /\ lookup' = ssrfSafeLookup(answer)
  /\ lastOp' = "lookup"
  /\ lastFlight' = NoFlight
  /\ UNCHANGED <<buffer, flushInFlight, consecutiveFailures, backoffUntil, inFlight, spool,
                 now, nextId, admitted, acked, diskError, recoveryVars, recovered, loadSource,
                 timer, signalHandlers, listeners, agentDestroyed, shutdownPc, shutdownAwaited,
                 pid, options, query, sendVars>>

\* time passes between two lookups
LookupClock(dt) ==
  /\ Constructed
  /\ now + dt <= MaxLookupNow
  /\ now' = now + dt
  /\ lastOp' = "lookup_clock"
  /\ lastFlight' = NoFlight
  /\ UNCHANGED <<buffer, flushInFlight, consecutiveFailures, backoffUntil, inFlight, spool,
                 nextId, admitted, acked, diskError, recoveryVars, procVars, sendVars>>

\* the host builds one more client from the same options; it is the client
\* followed from here on, with a dnsCache of its own
ConstructAnother ==
  /\ Constructed
  /\ LET c == LoadFromDisk(FileOf(spool), FileOf(recovering))
     IN  /\ buffer' = c.buffer
         /\ recovered' = c.buffer
         /\ loadSource' = c.source
         /\ spool' = c.primary
         /\ recovering' = c.recovering
         /\ recoveryPath' = c.recoveryPath
  /\ timer' = TRUE
  /\ signalHandlers' = OwnHandlers
  /\ listeners' = listeners \cup OwnHandlers
  /\ lookup' = NoLookup
  /\ lastOp' = "init"
  /\ lastFlight' = NoFlight
  /\ UNCHANGED <<flushInFlight, consecutiveFailures, backoffUntil, inFlight, now, nextId,
                 admitted, acked, diskError, agentDestroyed, shutdownPc, shutdownAwaited, pid,
                 options, query, sendVars>>

(***************************************************************************)
(* sortQueryString(url), the helper of the middleware.                      *)
(***************************************************************************)
\* url.indexOf(c) counted from 1: 0 where JavaScript answers -1
IndexOf(s, c) ==
  IF \E i \in DOMAIN s : s[i] = c
  THEN CHOOSE i \in DOMAIN s : s[i] = c /\ \A j \in 1..(i - 1) : s[j] # c
  ELSE 0

\* s.split(sep)
RECURSIVE SplitOn(_, _)
SplitOn(s, sep) ==
  IF IndexOf(s, sep) = 0 THEN <<s>>
  ELSE <<SubSeq(s, 1, IndexOf(s, sep) - 1)>>
         \o SplitOn(SubSeq(s, IndexOf(s, sep) + 1, Len(s)), sep)

\* parts.join(sep)
RECURSIVE Join(_, _)
Join(parts, sep) ==
  IF parts = <<>> THEN <<>>
  ELSE IF Len(parts) = 1 THEN parts[1]
  ELSE parts[1] \o <<sep>> \o Join(Tail(parts), sep)

\* the UTF-16 code unit of a character
CodeUnit(c) ==
  CASE c = "#" -> 35 [] c = "&" -> 38 [] c = "/" -> 47 [] c = "=" -> 61 [] c = "?" -> 63
    [] c = "a" -> 97 [] c = "b" -> 98

\* the order of Array.prototype.sort() without a comparator: by code units
RECURSIVE StringBefore(_, _)
StringBefore(x, y) ==
  IF x = <<>> THEN y # <<>>
  ELSE IF y = <<>> THEN FALSE
  ELSE IF x[1] = y[1] THEN StringBefore(Tail(x), Tail(y))
  ELSE CodeUnit(x[1]) < CodeUnit(y[1])

\* parts.sort(): in place in the code, the sorted array here
RECURSIVE Sorted(_)
Sorted(parts) ==
  IF parts = <<>> THEN <<>>
  ELSE LET rest == Sorted(Tail(parts))
           before == SelectSeq(rest, LAMBDA p : StringBefore(p, parts[1]))
           after == SelectSeq(rest, LAMBDA p : ~StringBefore(p, parts[1]))
       IN  before \o <<parts[1]>> \o after

sortQueryString(url) ==
  LET qIndex == IndexOf(url, "?")
  IN  IF qIndex = 0 THEN <<>>
      ELSE LET params ==
                 Sorted(SelectSeq(SplitOn(SubSeq(url, qIndex + 1, Len(url)), "&"),
                                  LAMBDA p : p # <<>>))
           IN  IF Len(params) > 0 THEN <<"?">> \o Join(params, "&") ELSE <<>>

Given(s) == [set |-> TRUE, chars |-> s]

\* the middleware appends sortQueryString(request.originalUrl) to the path
SortQueryString ==
  /\ query.url.set /\ ~query.sorted.set
  /\ query' = [query EXCEPT !.sorted = Given(sortQueryString(query.url.chars))]
  /\ UNCHANGED <<flushVars, recoveryVars, recovered, loadSource, timer, signalHandlers,
                 listeners, agentDestroyed, shutdownPc, shutdownAwaited, pid, options, lookup,
                 sendVars>>

\* the helper applied to what it returned
SortAgain ==
  /\ query.sorted.set /\ ~query.resorted.set
  /\ query' = [query EXCEPT !.resorted = Given(sortQueryString(query.sorted.chars))]
  /\ UNCHANGED <<flushVars, recoveryVars, recovered, loadSource, timer, signalHandlers,
                 listeners, agentDestroyed, shutdownPc, shutdownAwaited, pid, options, lookup,
                 sendVars>>

\* the parts of a URL: up to the first ?, from there to the first #, the rest
PathOf(url) == IF IndexOf(url, "?") = 0 THEN url ELSE SubSeq(url, 1, IndexOf(url, "?") - 1)
AfterQuestion(url) ==
  IF IndexOf(url, "?") = 0 THEN <<>> ELSE SubSeq(url, IndexOf(url, "?") + 1, Len(url))
QueryOf(url) ==
  LET rest == AfterQuestion(url)
  IN  IF IndexOf(rest, "#") = 0 THEN rest ELSE SubSeq(rest, 1, IndexOf(rest, "#") - 1)
FragmentOf(url) ==
  LET rest == AfterQuestion(url)
  IN  IF IndexOf(rest, "#") = 0 THEN <<>> ELSE SubSeq(rest, IndexOf(rest, "#"), Len(rest))

\* the URL with parameters i and j of its query exchanged
Exchange(url, i, j) ==
  LET parameters == SplitOn(QueryOf(url), "&")
      exchanged == [k \in DOMAIN parameters |->
                      IF k = i THEN parameters[j]
                      ELSE IF k = j THEN parameters[i] ELSE parameters[k]]
  IN  PathOf(url) \o <<"?">> \o Join(exchanged, "&") \o FragmentOf(url)

\* a second request arrives: the same URL with two query parameters exchanged
Reorder(i, j) ==
  /\ query.resorted.set /\ ~query.other.set
  /\ IndexOf(query.url.chars, "?") # 0
  /\ i \in DOMAIN SplitOn(QueryOf(query.url.chars), "&")
  /\ j \in DOMAIN SplitOn(QueryOf(query.url.chars), "&")
  /\ i < j
  /\ query' = [query EXCEPT !.other = Given(Exchange(query.url.chars, i, j))]
  /\ UNCHANGED <<flushVars, recoveryVars, recovered, loadSource, timer, signalHandlers,
                 listeners, agentDestroyed, shutdownPc, shutdownAwaited, pid, options, lookup,
                 sendVars>>

\* the middleware handles the second request
SortOther ==
  /\ query.other.set /\ ~query.otherSorted.set
  /\ query' = [query EXCEPT !.otherSorted = Given(sortQueryString(query.other.chars))]
  /\ UNCHANGED <<flushVars, recoveryVars, recovered, loadSource, timer, signalHandlers,
                 listeners, agentDestroyed, shutdownPc, shutdownAwaited, pid, options, lookup,
                 sendVars>>

(***************************************************************************)
(* The clock.                                                               *)
(***************************************************************************)
AdvanceTime(dt) ==
  /\ EventLoopTurn
  /\ UNCHANGED <<recoveryVars, procVars, sendVars>>
  /\ now + dt <= MaxNow
  /\ now' = now + dt
  /\ lastOp' = "advance"
  /\ lastFlight' = NoFlight
  /\ UNCHANGED <<buffer, flushInFlight, consecutiveFailures, backoffUntil, inFlight, spool,
                 nextId, admitted, acked, diskError>>

(***************************************************************************)
(* The specification.                                                       *)
(***************************************************************************)
\* the options of the client followed through flushes, shutdown and restarts
DefaultOptions ==
  [endpoint |-> [given |-> TRUE, parses |-> TRUE, scheme |-> "https",
                 hostname |-> <<"a", "p", "i", ".", "e", "x", "a", "m", "p", "l", "e">>],
   apiKey |-> [type |-> "string", chars |-> <<"a", "k">>],
   debug |-> FALSE,
   onError |-> "returns"]

\* the helper of the middleware before any URL was handed to it
NoString == [set |-> FALSE, chars |-> <<>>]
NoQuery ==
  [url |-> NoString, sorted |-> NoString, resorted |-> NoString, other |-> NoString,
   otherSorted |-> NoString]

\* a client just built in a process that found no file on disk
ClientInit ==
  /\ buffer = <<>>
  /\ flushInFlight = FALSE
  /\ consecutiveFailures = 0
  /\ backoffUntil = 0
  /\ inFlight = {}
  /\ spool = <<>>
  /\ now = StartTime
  /\ nextId = 1
  /\ admitted = {}
  /\ acked = {}
  /\ diskError = FALSE
  /\ lastOp = "init"
  /\ lastFlight = NoFlight
  /\ recovering = <<>>
  /\ recoveryPath = FALSE
  /\ recovered = <<>>
  /\ loadSource = "none"
  /\ timer = TRUE
  /\ signalHandlers = OwnHandlers
  /\ listeners = OtherHandlers \cup OwnHandlers
  /\ agentDestroyed = FALSE
  /\ shutdownPc = "idle"
  /\ shutdownAwaited = FALSE
  /\ pid = 1
  /\ lookup = NoLookup

\* no send() is followed on its own
NoSend ==
  /\ sendPhase = "none"
  /\ sendOutcome = [kind |-> "none", status |-> 0]
  /\ sendResult = Unsettled
  /\ sendStart = 0
  /\ sendTimer = FALSE

Init == ClientInit /\ NoSend /\ options = DefaultOptions /\ query = NoQuery

Next ==
  \/ \E e \in TrackInputs(nextId) : Track(e)
  \/ Flush
  \/ TimerTick
  \/ \E t \in inFlight, o \in Outcomes : SendSuccess(t, o)
  \/ \E t \in inFlight, o \in Outcomes : SendNonRetryable(t, o)
  \/ \E t \in inFlight, o \in Outcomes, r \in RandomQuarters : SendRetry(t, o, r)
  \/ \E t \in inFlight, o \in Outcomes : SendSpill(t, o)
  \/ \E t \in inFlight : PersistSkip(t)
  \/ \E t \in inFlight : PersistStat(t)
  \/ \E t \in inFlight : PersistWrite(t)
  \/ \E t \in inFlight : PersistError(t)
  \/ \E t \in inFlight : FinishNonRetryable(t)
  \/ \E t \in inFlight, r \in RandomQuarters : FinishSpill(t, r)
  \/ \E dt \in TimeSteps : AdvanceTime(dt)

Spec == Init /\ [][Next]_vars

(***************************************************************************)
(* One send() on its own: from the call to the settling of its promise.     *)
(***************************************************************************)
SendInit ==
  /\ ClientInit
  /\ sendPhase = "request"
  /\ sendOutcome = [kind |-> "none", status |-> 0]
  /\ sendResult = Unsettled
  /\ sendStart = StartTime
  /\ sendTimer = TRUE
  /\ options = DefaultOptions
  /\ query = NoQuery

SendNext ==
  \/ \E status \in Statuses : SendResponse(status)
  \/ SendBodyEnd
  \/ SendBodyError
  \/ SendRequestError
  \/ SendAbort
  \/ \E dt \in SendTimeSteps : SendClock(dt)

SendSpec == SendInit /\ [][SendNext]_vars

(***************************************************************************)
(* The client through its life: built on what earlier processes left on     *)
(* disk, flushing, shut down by the host or by a signal, and followed by    *)
(* the next process on the same storage path.                               *)
(***************************************************************************)
\* the one Math.random() sample drawn in the life of a client: 1/2
LifeRandomQuarters == {2}

\* the primary file and its .recovering sibling as a new process finds them
DiskInputs ==
  { [primary |-> NoFile, recovering |-> NoFile],
    [primary |-> EmptyFile, recovering |-> NoFile],
    [primary |-> FileOf(<<<<RecoveredEvent(11)>>>>), recovering |-> NoFile],
    [primary |-> FileOf(<<<<RecoveredEvent(11)>>,
                          <<RecoveredEvent(12), RecoveredEvent(13)>>>>),
     recovering |-> NoFile],
    [primary |-> FileOf(<<CorruptLine>>), recovering |-> NoFile],
    [primary |-> FileOf(<<CorruptLine, <<RecoveredEvent(11)>>>>), recovering |-> NoFile] }

LifeInit ==
  /\ \E d \in DiskInputs :
       LET c == LoadFromDisk(d.primary, d.recovering)
       IN  /\ buffer = c.buffer
           /\ recovered = c.buffer
           /\ loadSource = c.source
           /\ spool = c.primary
           /\ recovering = c.recovering
           /\ recoveryPath = c.recoveryPath
  /\ flushInFlight = FALSE
  /\ consecutiveFailures = 0
  /\ backoffUntil = 0
  /\ inFlight = {}
  /\ now = StartTime
  /\ nextId = 1
  /\ admitted = {}
  /\ acked = {}
  /\ diskError = FALSE
  /\ lastOp = "init"
  /\ lastFlight = NoFlight
  /\ timer = TRUE
  /\ signalHandlers = OwnHandlers
  /\ listeners = OtherHandlers \cup OwnHandlers
  /\ agentDestroyed = FALSE
  /\ shutdownPc = "idle"
  /\ shutdownAwaited = FALSE
  /\ pid = 1
  /\ options = DefaultOptions
  /\ lookup = NoLookup
  /\ query = NoQuery
  /\ NoSend

LifeNext ==
  \/ \E e \in TrackInputs(nextId) : nextId <= MaxLifeEvents /\ Track(e)
  \/ Flush
  \/ TimerTick
  \/ \E t \in inFlight, o \in Outcomes : SendSuccess(t, o)
  \/ \E t \in inFlight, o \in Outcomes : SendNonRetryable(t, o)
  \/ \E t \in inFlight, o \in Outcomes, r \in LifeRandomQuarters : SendRetry(t, o, r)
  \/ \E t \in inFlight : PersistSkip(t)
  \/ \E t \in inFlight : PersistStat(t)
  \/ \E t \in inFlight : PersistWrite(t)
  \/ \E t \in inFlight : PersistError(t)
  \/ \E t \in inFlight : FinishNonRetryable(t)
  \/ \E dt \in TimeSteps : now + dt <= MaxLifeNow /\ AdvanceTime(dt)
  \/ ShutdownCall
  \/ \E fails \in BOOLEAN : ShutdownResume(fails)
  \/ \E fails \in BOOLEAN : ShutdownFinish(fails)
  \/ \E sig \in Signals, fails \in BOOLEAN : Signal(sig, fails)
  \/ Restart

LifeSpec == LifeInit /\ [][LifeNext]_vars

(***************************************************************************)
(* track() on events of every size and on arguments it cannot process, the  *)
(* flushes it triggers answered with success or a retryable failure.         *)
(***************************************************************************)
TrackInit ==
  /\ ClientInit /\ NoSend
  /\ \E d \in BOOLEAN : options = [DefaultOptions EXCEPT !.debug = d]
  /\ query = NoQuery

TrackNext ==
  \/ \E e \in SizedInputs(nextId) : Track(e)
  \/ \E x \in FaultyArguments : TrackFaulty(x)
  \/ \E t \in inFlight, o \in Outcomes : SendSuccess(t, o)
  \/ \E t \in inFlight, o \in Outcomes, r \in LifeRandomQuarters : SendRetry(t, o, r)
  \/ \E dt \in TimeSteps : now + dt <= MaxLifeNow /\ AdvanceTime(dt)

TrackSpec == TrackInit /\ [][TrackNext]_vars

(***************************************************************************)
(* The flush engine of a client built without an onError callback, with one *)
(* that returns and with one that throws.                                   *)
(***************************************************************************)
OnErrorCallbacks == {"none", "returns", "throws"}

ErrInit ==
  /\ ClientInit /\ NoSend
  /\ \E c \in OnErrorCallbacks : options = [DefaultOptions EXCEPT !.onError = c]
  /\ query = NoQuery

ErrNext ==
  \/ \E e \in TrackInputs(nextId) : nextId <= MaxLifeEvents /\ Track(e)
  \/ Flush
  \/ \E t \in inFlight, o \in HeaderOutcomes : SendSuccess(t, o)
  \/ \E t \in inFlight, o \in HeaderOutcomes : SendNonRetryable(t, o)
  \/ \E t \in inFlight, o \in HeaderOutcomes, r \in RandomQuarters : SendRetry(t, o, r)
  \/ \E t \in inFlight, o \in HeaderOutcomes : SendSpill(t, o)
  \/ \E t \in inFlight : PersistStat(t)
  \/ \E t \in inFlight : PersistWrite(t)
  \/ \E t \in inFlight : PersistError(t)
  \/ \E t \in inFlight : FinishNonRetryable(t)
  \/ \E t \in inFlight, r \in RandomQuarters : FinishSpill(t, r)
  \/ \E dt \in TimeSteps : AdvanceTime(dt)

ErrSpec == ErrInit /\ [][ErrNext]_vars

(***************************************************************************)
(* Construction on endpoints and API keys of every kind, and the resolver   *)
(* hook of the clients that were built.                                     *)
(***************************************************************************)
\* decimal digits of a number, and the dotted form of four of them
RECURSIVE Digits(_)
Digits(n) == IF n < 10 THEN <<DigitChars[n + 1]>> ELSE Digits(n \div 10) \o <<DigitChars[(n % 10) + 1]>>
Dotted(a, b, c, d) == Digits(a) \o <<".">> \o Digits(b) \o <<".">> \o Digits(c) \o <<".">> \o Digits(d)

\* the first two numbers of the IPv4 hosts: the edges of every listed range
FirstOctets == {0, 9, 10, 11, 100, 127, 128, 169, 172, 192, 203}
SecondOctets == {0, 15, 16, 31, 32, 63, 64, 127, 128, 168, 254, 255}

\* url.hostname as new URL() gives it: lower case, IPv6 in brackets and
\* compressed, an IPv4-mapped address in its hexadecimal form
HostInputs ==
  {Dotted(a, b, 0, 1) : a \in FirstOctets, b \in SecondOctets}
    \cup {<<"l", "o", "c", "a", "l", "h", "o", "s", "t">>, <<"a", "p", "i", ".", "e", "x", "a", "m", "p", "l", "e">>, <<"e", "x", "a", "m", "p", "l", "e", ".", "c", "o", "m">>, <<"f", "d", "i", "c", ".", "g", "o", "v">>, <<"f", "c", ".", "i", "o">>, <<"f", "e", "8", "0", ".", "n", "e", "t">>, <<"1", "0", ".", "i", "o">>, <<"0", ".", "i", "o">>,
          <<"1", "0", "0", ".", "1", "2", "7", ".", "2", "5", "5", ".", "2", "5", "5">>, <<"1", "0", "0", ".", "1", "2", "8", ".", "0", ".", "1">>, <<"8", ".", "8", ".", "8", ".", "8">>,
          <<"[", ":", ":", "1", "]">>, <<"[", "f", "c", "0", "0", ":", ":", "1", "]">>, <<"[", "f", "d", "1", "2", ":", ":", "1", "]">>, <<"[", "f", "e", "8", "0", ":", ":", "1", "]">>, <<"[", "f", "e", "9", "0", ":", ":", "1", "]">>, <<"[", "2", "0", "0", "1", ":", "d", "b", "8", ":", ":", "1", "]">>,
          <<"[", ":", ":", "f", "f", "f", "f", ":", "a", "0", "0", ":", "1", "]">>, <<"[", ":", ":", "f", "f", "f", "f", ":", "1", "0", "1", ":", "1", "0", "1", "]">>}

Schemes == {"https", "http", "ftp"}

EndpointInputs ==
  {[given |-> FALSE, parses |-> FALSE, scheme |-> "none", hostname |-> <<>>],
   [given |-> TRUE, parses |-> FALSE, scheme |-> "none", hostname |-> <<>>]}
    \cup [given : {TRUE}, parses : {TRUE}, scheme : Schemes, hostname : HostInputs]

\* options.apiKey: missing, not a string, empty, good, and with CR, LF or NUL
ApiKeyInputs ==
  {[type |-> "undefined", chars |-> <<>>], [type |-> "number", chars |-> <<>>],
   [type |-> "string", chars |-> <<>>], [type |-> "string", chars |-> <<"a", "k">>],
   [type |-> "string", chars |-> <<"a", "CR">>], [type |-> "string", chars |-> <<"LF", "a">>],
   [type |-> "string", chars |-> <<"a", "NUL", "k">>]}

\* what dns.lookup() calls back with: an error, one address, or with
\* options.all a list of addresses
AddressInputs ==
  {<<"8", ".", "8", ".", "8", ".", "8">>, <<"1", "0", ".", "0", ".", "0", ".", "1">>, <<"1", "0", "0", ".", "1", "2", "7", ".", "2", "5", "5", ".", "2", "5", "5">>, <<"1", "0", "0", ".", "1", "2", "8", ".", "0", ".", "1">>, <<":", ":", "1">>, <<"f", "e", "8", "0", ":", ":", "1">>, <<"f", "e", "9", "0", ":", ":", "1">>,
   <<"2", "0", "0", "1", ":", "d", "b", "8", ":", ":", "1">>, <<":", ":", "f", "f", "f", "f", ":", "1", "0", ".", "0", ".", "0", ".", "1">>, <<":", ":", "f", "f", "f", "f", ":", "1", ".", "1", ".", "1", ".", "1">>}
AnswerInputs ==
  {[kind |-> "error", chars |-> <<>>]}
    \cup [kind : {"string"}, chars : AddressInputs]
    \cup {[kind |-> "list", chars |-> <<"1", "0", ".", "0", ".", "0", ".", "1">>]}

LookupTimeSteps == {DNS_CACHE_TTL_MS \div 2}

\* the primary file an earlier process left on disk
LeftOnDisk == <<<<RecoveredEvent(11)>>>>

BuildInit ==
  /\ options \in [endpoint : EndpointInputs, apiKey : ApiKeyInputs, debug : {FALSE},
                  onError : {"returns"}]
  /\ buffer = <<>>
  /\ flushInFlight = FALSE
  /\ consecutiveFailures = 0
  /\ backoffUntil = 0
  /\ inFlight = {}
  /\ spool = LeftOnDisk
  /\ now = StartTime
  /\ nextId = 1
  /\ admitted = {}
  /\ acked = {}
  /\ diskError = FALSE
  /\ lastOp = "new"
  /\ lastFlight = NoFlight
  /\ recovering = <<>>
  /\ recoveryPath = FALSE
  /\ recovered = <<>>
  /\ loadSource = "none"
  /\ timer = FALSE
  /\ signalHandlers = {}
  /\ listeners = OtherHandlers
  /\ agentDestroyed = FALSE
  /\ shutdownPc = "idle"
  /\ shutdownAwaited = FALSE
  /\ pid = 1
  /\ lookup = NoLookup
  /\ query = NoQuery
  /\ NoSend

BuildNext ==
  \/ Construct
  \/ \E answer \in AnswerInputs : Lookup(answer)
  \/ \E dt \in LookupTimeSteps : LookupClock(dt)
  \/ ConstructAnother

BuildSpec == BuildInit /\ [][BuildNext]_vars

(***************************************************************************)
(* sortQueryString on every short URL, on its own result, and on the same   *)
(* URL with its parameters in another order.                                *)
(***************************************************************************)
UrlChars == {"a", "b", "&", "?", "#"}
UrlInputs == UNION {[1..n -> UrlChars] : n \in 0..MaxUrlLen}

SortInit ==
  /\ ClientInit
  /\ NoSend
  /\ options = DefaultOptions
  /\ \E url \in UrlInputs : query = [NoQuery EXCEPT !.url = Given(url)]

SortNext ==
  \/ SortQueryString
  \/ SortAgain
  \/ \E i, j \in 1..(MaxUrlLen + 1) : Reorder(i, j)
  \/ SortOther

SortSpec == SortInit /\ [][SortNext]_vars

TypeOK ==
  /\ flushInFlight \in BOOLEAN
  /\ consecutiveFailures \in Nat
  /\ backoffUntil \in Nat
  /\ now \in StartTime..MaxNow
  /\ nextId \in 1..(MaxEvents + 1)
  /\ admitted \subseteq 1..MaxEvents
  /\ acked \subseteq admitted \cup Ids(recovered)
  /\ diskError \in BOOLEAN
  /\ recoveryPath \in BOOLEAN
  /\ recoveryPath => recovering # <<>>
  /\ loadSource \in {"none", "primary", "recovering"}
  /\ timer \in BOOLEAN
  /\ signalHandlers \subseteq OwnHandlers
  /\ signalHandlers = listeners \cap OwnHandlers
  /\ agentDestroyed \in BOOLEAN
  /\ shutdownPc \in {"idle", "wait", "final", "done"}
  /\ shutdownAwaited \in BOOLEAN
  /\ pid \in 1..MaxProcesses
  /\ sendPhase \in {"none", "request", "body", "settled"}
  /\ sendTimer \in BOOLEAN

(***************************************************************************)
(* Properties.                                                              *)
(***************************************************************************)
FlushCallOps == {"flush", "tick", "track"}
BackingOff == consecutiveFailures > 0 /\ now < backoffUntil

\* C1: in every reachable state the in-memory buffer holds at most
\* maxBufferSize events.
C1_BufferWithinMax == Len(buffer) <= maxBufferSize

\* C2: at most one doFlush() is active at any instant, and a flush() call made
\* while flushInFlight is set (by the host, the ticker or track()'s threshold
\* trigger) starts no submission and removes no event from the buffer.
C2_SingleFlight ==
  /\ [](Cardinality(inFlight) <= 1)
  /\ [][(flushInFlight /\ lastOp' \in FlushCallOps)
          => (inFlight' = inFlight /\ IsPrefix(buffer, buffer'))]_vars

\* a host flush() has just returned early only because a submission is in flight
C2_Witness ==
  /\ lastOp = "flush" /\ lastFlight = NoFlight
  /\ flushInFlight /\ buffer # <<>> /\ ~BackingOff
  /\ \E t \in inFlight : t.pc = "send"

\* C3: no admitted event disappears: unless a disk operation has failed, every
\* event track() pushed is in the buffer, in the batch of the active doFlush(),
\* acknowledged by a 2xx response or in the spool file.
C3_NoAdmittedEventLost ==
  ~diskError => admitted \subseteq (Ids(buffer) \cup InFlightIds \cup acked \cup SpoolIds)

\* C4: right after a flush whose submission got a 2xx response the failure
\* counter and the backoff deadline are both 0, whatever they were before.
C4_SuccessResets ==
  lastOp = "success" => (consecutiveFailures = 0 /\ backoffUntil = 0)

\* a 2xx response has just ended a run of four retryable failures
C4_Witness ==
  /\ lastOp = "success"
  /\ lastFlight.failures0 = 4 /\ lastFlight.backoff0 > 0

\* what persistToDiskAsync did with the batch of the doFlush() that just ended
LastBatchLines == {i \in DOMAIN spool : spool[i] = lastFlight.events}
LastBatchWritten ==
  /\ lastFlight.disk = "written"
  /\ Cardinality(LastBatchLines) = 1
LastBatchSkipped ==
  /\ lastFlight.disk = "skipped"
  /\ StorageFull(spool)
  /\ Ids(lastFlight.events) \cap SpoolIds = {}
LastBatchFailed ==
  /\ lastFlight.disk = "failed"
  /\ diskError
  /\ Ids(lastFlight.events) \cap SpoolIds = {}
LastBatchNotBuffered == Ids(lastFlight.events) \cap Ids(buffer) = {}
LastCountersKept ==
  /\ consecutiveFailures = lastFlight.failures0
  /\ backoffUntil = lastFlight.backoff0

\* C5 as stated: after a non-retryable failure (the disk raising no error) the
\* batch is a line of the spool file, is not in the buffer, the failure counter
\* and the backoff deadline are what they were before the flush, and
\* flushInFlight is cleared.
C5_NonRetryableAlwaysSpooled ==
  (lastOp = "nonretry_done" /\ lastFlight.disk # "failed")
    => /\ LastBatchWritten
       /\ LastBatchNotBuffered
       /\ LastCountersKept
       /\ ~flushInFlight

\* C5 amended: after a non-retryable failure the batch is appended to the spool
\* file as one line, unless the size check found the file at or above
\* maxStorageBytes or the disk operation failed, and then nothing of it is
\* written; in every case it is not re-inserted, the failure counter and the
\* backoff deadline keep their values, and flushInFlight is cleared.
C5_NonRetryableSpoolsWithinCap ==
  lastOp = "nonretry_done"
    => /\ (LastBatchWritten \/ LastBatchSkipped \/ LastBatchFailed)
       /\ LastBatchNotBuffered
       /\ LastCountersKept
       /\ ~flushInFlight

\* a non-retryable failure after earlier retryable ones has been spooled
C5_Witness ==
  /\ lastOp = "nonretry_done"
  /\ LastBatchWritten
  /\ lastFlight.failures0 > 0 /\ lastFlight.backoff0 > 0

\* C6: after a retryable failure below the limit the whole failed batch is at
\* the front of the buffer in its original order.
C6_FailedBatchBackAtFront ==
  lastOp = "retry" => IsPrefix(lastFlight.events, buffer)

\* C7 as stated: the 5th consecutive retryable failure (the disk raising no
\* error) leaves the batch as exactly one line of the spool file.
C7_FifthFailureAlwaysSpooled ==
  (lastOp = "spill_done" /\ lastFlight.disk # "failed") => LastBatchWritten

\* C7 amended: the spill happens on the 5th consecutive retryable failure and
\* only then; it writes the batch as exactly one line unless the size check
\* found the file at or above maxStorageBytes or the disk operation failed (then
\* nothing of it is written), never re-inserts it, and resets the counter to 0;
\* after the 1st to 4th failure nothing of the batch is in the spool.
C7_SpillOnFifthFailure ==
  /\ lastOp \in {"spill", "spill_done"}
       => lastFlight.failures0 = MAX_CONSECUTIVE_FAILURES - 1
  /\ lastOp = "spill_done"
       => /\ (LastBatchWritten \/ LastBatchSkipped \/ LastBatchFailed)
          /\ LastBatchNotBuffered
          /\ consecutiveFailures = 0
  /\ lastOp = "retry"
       => /\ lastFlight.failures0 < MAX_CONSECUTIVE_FAILURES - 1
          /\ Ids(lastFlight.events) \cap SpoolIds = {}

\* the 5th failure in a row has just spilled its batch
C7_Witness ==
  /\ lastOp = "spill_done"
  /\ LastBatchWritten
  /\ lastFlight.failures0 = 4

\* C8 as stated: the failure that triggers the spill sets backoffUntil anew, to
\* a time 8000 to 16000 ms from now.
C8_SpillSetsBackoff ==
  lastOp = "spill_done"
    => (backoffUntil >= now + 8000 /\ backoffUntil <= now + 16000)

\* C8 amended: the failure that triggers the spill leaves backoffUntil at the
\* value computed after the 4th failure, which has already passed.
C8_SpillKeepsBackoff ==
  lastOp = "spill_done"
    => /\ backoffUntil = lastFlight.backoff0
       /\ backoffUntil <= now

\* the spill has ended with the deadline of the 4th failure still in place
C8_Witness ==
  /\ lastOp = "spill_done"
  /\ lastFlight.failures0 = 4
  /\ backoffUntil > 0 /\ backoffUntil < now

\* C9: right after the n-th consecutive retryable failure, n in 1..4, the
\* backoff delay lies between 500 * 2^(n-1) and 1000 * 2^(n-1) milliseconds.
C9_BackoffRange ==
  lastOp = "retry"
    => /\ consecutiveFailures \in 1..4
       /\ consecutiveFailures = lastFlight.failures0 + 1
       /\ backoffUntil - now >= 500 * (2 ^ (consecutiveFailures - 1))
       /\ backoffUntil - now <= 1000 * (2 ^ (consecutiveFailures - 1))

\* the 4th failure drew a delay strictly inside its range
C9_Witness ==
  /\ lastOp = "retry"
  /\ consecutiveFailures = 4
  /\ backoffUntil - now = 7000

\* C10: a flush() made with an empty buffer or during backoff changes nothing,
\* and no step starts a submission while the client is backing off.
C10_SkippedFlush ==
  [][/\ (lastOp' \in {"flush", "tick"} /\ (buffer = <<>> \/ BackingOff))
          => UNCHANGED <<buffer, consecutiveFailures, backoffUntil, flushInFlight,
                         inFlight, spool>>
     /\ BackingOff => inFlight' \subseteq inFlight]_vars

\* the ticker has just fired during the backoff that follows a first failure
C10_Witness ==
  /\ lastOp = "tick" /\ lastFlight = NoFlight
  /\ ~flushInFlight /\ buffer # <<>>
  /\ consecutiveFailures = 1 /\ now < backoffUntil

\* what doFlush() makes of the settled promise of send()
SendClass ==
  IF sendResult.settled = "resolve" THEN "success"
  ELSE IF sendResult.retryable # "false" THEN "retryable" ELSE "nonretryable"

\* C11: every settled send() falls in exactly one class: a response with status
\* 200..299 is a success, one with status 429, 500, 502, 503 or 504 a retryable
\* failure, any other response a non-retryable failure, and a transport error
\* (the deadline abort included) a retryable failure; doFlush() takes the
\* retryable path exactly for the retryable class.
C11_ClassificationExact ==
  sendPhase = "settled"
    => /\ sendOutcome.kind \in {"response", "error"}
       /\ (sendOutcome.kind = "response" /\ sendOutcome.status \in 200..299)
            => SendClass = "success"
       /\ (sendOutcome.kind = "response" /\ sendOutcome.status \in {429, 500, 502, 503, 504})
            => SendClass = "retryable"
       /\ (sendOutcome.kind = "response" /\ sendOutcome.status \notin 200..299
             /\ sendOutcome.status \notin {429, 500, 502, 503, 504})
            => SendClass = "nonretryable"
       /\ sendOutcome.kind = "error" => SendClass = "retryable"
       /\ sendResult.settled = "reject"
            => (IsRetryable(sendOutcome) <=> SendClass = "retryable")

\* a 501 response has been rejected after its body ended
C11_Witness ==
  /\ sendPhase = "settled" /\ lastOp = "send_end"
  /\ sendOutcome.status = 501
  /\ SendClass = "nonretryable"

\* C12: a send() that has not settled is never older than SEND_TIMEOUT_MS.
C12_SendSettlesWithinDeadline ==
  sendPhase \in {"request", "body"} => now - sendStart <= SEND_TIMEOUT_MS

ShutdownOps == {"shutdown_flush", "shutdown_done"}

\* C13: when shutdown() is called while a doFlush() is in flight, no step of
\* shutdown() (the final flush, the spill) is taken before that doFlush() has
\* returned; the final flush then starts with no other submission active and
\* takes its batch from the front of the buffer, and the spill is handed the
\* whole buffer with no submission active, so every event tracked meanwhile is
\* in the final batch or in the spill.
C13_ShutdownWaitsForFlight ==
  /\ [][(shutdownPc = "wait" /\ shutdownAwaited /\ flushInFlight)
          => lastOp' \notin ShutdownOps]_vars
  /\ [][(shutdownAwaited' /\ lastOp' = "shutdown_flush")
          => /\ ~flushInFlight /\ inFlight = {}
             /\ inFlight' = {lastFlight'}
             /\ spool' = spool
             /\ buffer = lastFlight'.events \o buffer']_vars
  /\ [][(shutdownAwaited' /\ lastOp' = "shutdown_done")
          => /\ ~flushInFlight /\ inFlight = {}
             /\ lastFlight'.events = buffer
             /\ buffer' = <<>>]_vars

\* the batch of a synchronous spill is the last line of the spool file
LastSpillWritten ==
  /\ lastFlight.disk = "written"
  /\ spool # <<>>
  /\ spool[Len(spool)] = lastFlight.events

\* shutdown() awaited a doFlush(), and its spill wrote an event tracked meanwhile
C13_Witness ==
  /\ lastOp = "shutdown_done" /\ shutdownAwaited
  /\ LastSpillWritten
  /\ Ids(lastFlight.events) \cap admitted # {}

\* one synchronous spill of the whole buffer: it leaves the buffer empty and
\* appends one line holding all of it, or nothing when the buffer is empty, the
\* file is at or above maxStorageBytes, or the disk operation fails
SpillStep ==
  /\ buffer' = <<>>
  /\ lastFlight'.events = buffer
  /\ \/ buffer = <<>> /\ spool' = spool /\ lastFlight'.disk = "none"
     \/ /\ buffer # <<>> /\ ~StorageFull(spool)
        /\ spool' = Append(spool, buffer) /\ lastFlight'.disk = "written"
     \/ /\ buffer # <<>> /\ StorageFull(spool)
        /\ spool' = spool /\ lastFlight'.disk = "skipped"
     \/ /\ buffer # <<>>
        /\ spool' = spool /\ lastFlight'.disk = "failed" /\ diskError'

\* C14 as stated: when shutdown() resolves (the disk raising no error) the
\* buffer is empty and every event that was still in it is in the spool file,
\* as one batch line.
C14_ShutdownSpillsAll ==
  (lastOp = "shutdown_done" /\ lastFlight.disk # "failed")
    => /\ buffer = <<>>
       /\ lastFlight.events # <<>> => LastSpillWritten

\* C14 amended: shutdown() makes at most one final flush, of 1 to batchSize
\* events from the front of the buffer, and when it resolves the buffer is
\* empty: what was still in it went to one synchronous spool write, which
\* appends it as one batch line unless the file is at or above maxStorageBytes
\* or the disk operation fails, and then it is discarded.
C14_ShutdownEmptiesBuffer ==
  /\ [][lastOp' = "shutdown_done" => (SpillStep /\ shutdownPc' = "done")]_vars
  /\ [][lastOp' = "shutdown_flush"
          => /\ shutdownPc = "wait"
             /\ Len(lastFlight'.events) \in 1..batchSize
             /\ buffer = lastFlight'.events \o buffer']_vars
  /\ [][(shutdownPc \in {"final", "done"}) => (lastOp' # "shutdown_flush")]_vars

\* shutdown() has resolved after a failed flush, the rest of the buffer spooled
C14_Witness ==
  /\ lastOp = "shutdown_done" /\ shutdownPc = "done"
  /\ buffer = <<>>
  /\ LastSpillWritten
  /\ consecutiveFailures > 0

\* C15: shutdown() and shutdownSync() stop the ticker and remove from the
\* process exactly the handlers this client registered: the handlers of the
\* other client stay, none of this client's stays, and its list is empty.
C15_OwnHandlersRemoved ==
  [][lastOp' \in {"shutdown", "signal"}
       => /\ ~timer'
          /\ signalHandlers' = {}
          /\ listeners' = listeners \ signalHandlers
          /\ listeners' \cap OwnHandlers = {}
          /\ OtherHandlers \subseteq listeners']_vars

\* shutdown() has just removed this client's two handlers and stopped the ticker
C15_Witness ==
  /\ lastOp = "shutdown"
  /\ ~timer /\ signalHandlers = {}
  /\ listeners = OtherHandlers

\* C16 as stated: the signal handler (the disk raising no error) leaves the
\* whole buffer in the spool file as one batch.
C16_SignalSpillsAll ==
  (lastOp = "signal" /\ lastFlight.disk # "failed" /\ lastFlight.events # <<>>)
    => LastSpillWritten

\* C16 amended: the signal handler starts no submission and ends no process; it
\* hands the whole buffer to one synchronous spool write (one batch line, or
\* nothing when the file is at or above maxStorageBytes or the disk operation
\* fails), leaves the buffer empty, stops the ticker and destroys the transport.
C16_SignalShutdown ==
  [][lastOp' = "signal"
       => /\ SpillStep
          /\ inFlight' = inFlight /\ flushInFlight' = flushInFlight
          /\ pid' = pid
          /\ ~timer' /\ agentDestroyed']_vars

\* a signal has spooled a buffer longer than one batch as a single line
C16_Witness ==
  /\ lastOp = "signal"
  /\ LastSpillWritten
  /\ Len(lastFlight.events) > batchSize
  /\ buffer = <<>> /\ ~timer /\ agentDestroyed

\* the events of the lines that parse, in file order
RECURSIVE ValidEvents(_)
ValidEvents(lines) ==
  IF lines = <<>> THEN <<>>
  ELSE (IF ParseFails(Head(lines)) THEN <<>> ELSE Head(lines)) \o ValidEvents(Tail(lines))

Take(events, n) == SubSeq(events, 1, Min(Len(events), n))

BuiltFromPrimary == lastOp \in {"init", "restart"} /\ loadSource = "primary"

C20_RecoveringMeansUnacked ==
  recoveryPath => (Ids(recovered) \ acked) # {}

\* the steps that end a synchronous spool write
SyncSpillOps == {"signal", "shutdown_done"}

\* C21: a spool write, asynchronous or synchronous, whose size check finds the
\* file at or above maxStorageBytes writes nothing and leaves the file as it
\* is; one whose check finds it below appends exactly one line holding the
\* whole batch; a skipped or failed write raises nothing: the doFlush() goes on
\* to clear flushInFlight, the shutdown goes on to destroy the transport.
C21_SpoolWriteRespectsCheck ==
  /\ [][/\ lastOp' = "persist_skip"
             => /\ FileBytes(spool) >= maxStorageBytes
                /\ spool' = spool /\ lastFlight'.disk = "skipped"
        /\ lastOp' = "persist_stat"
             => (FileBytes(spool) < maxStorageBytes /\ spool' = spool)
        /\ lastOp' = "persist_write"
             => (lastFlight'.events # <<>> /\ spool' = Append(spool, lastFlight'.events))
        /\ lastOp' = "persist_error"
             => (spool' = spool /\ lastFlight'.pc = "close" /\ lastFlight' \in inFlight')
        /\ (lastOp' \in SyncSpillOps /\ lastFlight'.disk = "skipped")
             => (FileBytes(spool) >= maxStorageBytes /\ spool' = spool)
        /\ (lastOp' \in SyncSpillOps /\ lastFlight'.disk = "written")
             => /\ FileBytes(spool) < maxStorageBytes
                /\ buffer # <<>> /\ spool' = Append(spool, buffer)
        /\ (lastOp' \in SyncSpillOps /\ lastFlight'.disk \in {"failed", "none"})
             => spool' = spool]_vars
  /\ [](lastOp = "nonretry_done" => (~flushInFlight /\ lastFlight \notin inFlight))
  /\ [](lastOp \in SyncSpillOps => (agentDestroyed /\ buffer = <<>>))

\* a doFlush() has returned after its spool write was skipped at the cap
C21_Witness ==
  /\ lastOp = "nonretry_done"
  /\ lastFlight.disk = "skipped"
  /\ FileBytes(spool) >= maxStorageBytes
  /\ ~flushInFlight

\* C22: after any sequence of spool writes the spool file is at most
\* maxStorageBytes long.
C22_SpoolWithinMax == FileBytes(spool) <= maxStorageBytes

\* the step pushed the events x: they follow the old buffer, in the new buffer
\* or in the batch of the doFlush() the step started
StepPushed(x) ==
  buffer \o x = (IF lastFlight' # NoFlight THEN lastFlight'.events ELSE <<>>) \o buffer'

\* C23: track() admits an event with metadata of serialized size <= maxEventBytes
\* as it is; one above maxEventBytes without its metadata if it then fits, and
\* not at all otherwise; an event without metadata is admitted whatever its
\* size.  Every buffered event that carries metadata is <= maxEventBytes long.
C23_SizeEnforcement ==
  /\ [][\A e \in SizedInputs(nextId) : Track(e) =>
          /\ (e.meta # 0 /\ e.size + e.meta <= maxEventBytes)
               => (StepPushed(<<e>>) /\ e.id \in admitted')
          /\ (e.meta # 0 /\ e.size + e.meta > maxEventBytes /\ e.size <= maxEventBytes)
               => (StepPushed(<<[e EXCEPT !.meta = 0]>>) /\ e.id \in admitted')
          /\ (e.meta # 0 /\ e.size + e.meta > maxEventBytes /\ e.size > maxEventBytes)
               => (StepPushed(<<>>) /\ buffer' = buffer /\ admitted' = admitted)
          /\ e.meta = 0 => (StepPushed(<<e>>) /\ e.id \in admitted')]_vars
  /\ [](\A i \in DOMAIN buffer :
          buffer[i].meta # 0 => buffer[i].size + buffer[i].meta <= maxEventBytes)

\* the buffer holds an event with metadata of exactly maxEventBytes next to an
\* event without metadata that is longer than maxEventBytes
C23_Witness ==
  /\ \E i \in DOMAIN buffer :
       buffer[i].meta # 0 /\ buffer[i].size + buffer[i].meta = maxEventBytes
  /\ \E i \in DOMAIN buffer : buffer[i].meta = 0 /\ buffer[i].size > maxEventBytes

\* C24: no track() call throws to its caller, whatever its argument and
\* whatever the state of the client.
C24_TrackNeverThrows == lastOp # "track_throw"

\* C25: a track() call that admits its event and leaves the buffer at
\* batchSize or more, with no flush in flight and no backoff active, starts
\* exactly one submission, whose batch is out of the buffer when track()
\* returns; one that leaves the buffer below batchSize starts none; track()
\* returns with the submission still pending.
C25_ThresholdTrigger ==
  [][(lastOp' = "track" /\ admitted' # admitted) =>
       /\ (Len(buffer) + 1 >= batchSize /\ ~flushInFlight /\ ~BackingOff)
            => /\ inFlight' = inFlight \cup {lastFlight'}
               /\ lastFlight' \notin inFlight
               /\ lastFlight'.pc = "send" /\ flushInFlight'
               /\ Len(lastFlight'.events) = batchSize
               /\ IsPrefix(buffer, lastFlight'.events \o buffer')
               /\ Len(lastFlight'.events) + Len(buffer') = Len(buffer) + 1
               /\ Ids(lastFlight'.events) \cap Ids(buffer') = {}
       /\ Len(buffer) + 1 < batchSize
            => /\ inFlight' = inFlight /\ flushInFlight' = flushInFlight
               /\ Len(buffer') = Len(buffer) + 1 /\ IsPrefix(buffer, buffer')]_vars

\* after a failure and the end of its backoff, a track() call has started the
\* submission of a full batch and returned while it is pending
C25_Witness ==
  /\ lastOp = "track"
  /\ lastFlight \in inFlight /\ lastFlight.pc = "send"
  /\ lastFlight.failures0 > 0 /\ now >= backoffUntil
  /\ Len(lastFlight.events) = batchSize
  /\ flushInFlight

\* the steps in which a flush() may pass its guards
ProceedOps == {"flush", "tick", "shutdown_flush"}

\* C26: a flush that proceeds hands to one submission exactly the first
\* min(len, batchSize) events of the buffer, in buffer order, and leaves the
\* other len - min(len, batchSize) events in the buffer in their order.
C26_FlushDrainsFront ==
  [][/\ (lastOp' \in ProceedOps /\ lastFlight' # NoFlight) =>
          LET n == Min(Len(buffer), batchSize)
          IN  /\ n >= 1
              /\ lastFlight'.events = SubSeq(buffer, 1, n)
              /\ buffer' = SubSeq(buffer, n + 1, Len(buffer))
              /\ Len(buffer') = Len(buffer) - n
              /\ lastFlight'.pc = "send"
              /\ inFlight' = inFlight \cup {lastFlight'}
              /\ Cardinality(inFlight') = Cardinality(inFlight) + 1
     /\ (lastOp' = "track" /\ lastFlight' # NoFlight) =>
          LET pushed == lastFlight'.events \o buffer'
          IN  /\ IsPrefix(buffer, pushed) /\ Len(pushed) = Len(buffer) + 1
              /\ Len(lastFlight'.events) = Min(Len(pushed), batchSize)
              /\ inFlight' = inFlight \cup {lastFlight'}
              /\ Cardinality(inFlight') = Cardinality(inFlight) + 1]_vars

\* a flush() has taken a full batch from a longer buffer and left the rest
C26_Witness ==
  /\ lastOp \in {"flush", "tick"}
  /\ lastFlight \in inFlight /\ lastFlight.pc = "send"
  /\ Len(lastFlight.events) = batchSize
  /\ buffer # <<>>
  /\ \A i \in DOMAIN lastFlight.events, j \in DOMAIN buffer :
       lastFlight.events[i].id # buffer[j].id

FailureOps == {"retry", "nonretry", "spill", "nonretry_done", "spill_done"}

\* C27: with an onError callback set, a doFlush() calls it exactly once when its
\* submission fails, retryably or not, and never when it succeeds; a callback
\* that throws changes nothing: no doFlush() rejects, and the failure is
\* handled like any other (re-insert or spool write, counter, backoff,
\* flushInFlight cleared).
C27_OnErrorOncePerFailure ==
  /\ [](options.onError # "none" =>
          /\ lastOp \in FailureOps => lastFlight.onError = 1
          /\ lastOp = "success" => lastFlight.onError = 0
          /\ \A t \in inFlight : t.onError = (IF t.pc = "send" THEN 0 ELSE 1))
  /\ [](lastOp # "flush_rejected")
  /\ [][/\ lastOp' = "retry"
             => /\ consecutiveFailures' = consecutiveFailures + 1
                /\ consecutiveFailures' < MAX_CONSECUTIVE_FAILURES
                /\ IsPrefix(lastFlight'.events, buffer')
                /\ backoffUntil' > now
                /\ ~flushInFlight' /\ inFlight' = {}
        /\ lastOp' = "nonretry"
             => /\ consecutiveFailures' = consecutiveFailures
                /\ backoffUntil' = backoffUntil
                /\ lastFlight'.pc = "stat" /\ lastFlight' \in inFlight'
        /\ lastOp' = "spill"
             => /\ consecutiveFailures' = MAX_CONSECUTIVE_FAILURES
                /\ lastFlight'.pc = "stat" /\ lastFlight' \in inFlight'
        /\ lastOp' \in {"nonretry_done", "spill_done"}
             => /\ ~flushInFlight' /\ inFlight' = {}
                /\ lastFlight'.disk \in {"written", "failed"}
                /\ lastFlight'.disk = "written" => spool' # <<>>]_vars

\* the fifth failure in a row has been handled to its end, the callback having
\* thrown at each of the five
C27_Witness ==
  /\ options.onError = "throws"
  /\ lastOp = "spill_done"
  /\ lastFlight.onError = 1 /\ lastFlight.failures0 = 4
  /\ LastBatchWritten
  /\ consecutiveFailures = 0 /\ ~flushInFlight

(***************************************************************************)
(* The private-address table as section 4.2 lists it, on the text of        *)
(* addresses.                                                               *)
(***************************************************************************)
\* 127/8, 10/8, 172.16/12, 192.168/16, 169.254/16, 100.64/10 and 0/8 on the
\* first two numbers of an IPv4 address
InListedRanges(a, b) ==
  \/ a \in {0, 10, 127}
  \/ a = 172 /\ b \in 16..31
  \/ a = 192 /\ b = 168
  \/ a = 169 /\ b = 254
  \/ a = 100 /\ b \in 64..127
ListedV4(ip) ==
  /\ isIPv4(ip)
  /\ InListedRanges(ToNumber(SplitDots(ip)[1]), ToNumber(SplitDots(ip)[2]))

HexChars == <<"0", "1", "2", "3", "4", "5", "6", "7", "8", "9", "a", "b", "c", "d", "e", "f">>
RECURSIVE HexNumber(_)
HexNumber(g) ==
  IF g = <<>> THEN 0
  ELSE 16 * HexNumber(SubSeq(g, 1, Len(g) - 1))
         + (CHOOSE d \in DOMAIN HexChars : HexChars[d] = g[Len(g)]) - 1

\* the text up to the first colon, and the text after the last
FirstGroup(ip) ==
  SubSeq(ip, 1, (CHOOSE i \in 1..(Len(ip) + 1) :
                   /\ At(ip, i) \in {":", ""}
                   /\ \A j \in 1..(i - 1) : ip[j] # ":") - 1)
AfterPrefix(ip) == SubSeq(ip, 8, Len(ip))
IsMapped(ip) == StartsWith(ip, <<":", ":", "f", "f", "f", "f", ":">>)

\* the IPv4 address inside ::ffff:a.b.c.d, or inside ::ffff:hhhh:hhhh as a
\* URL writes it, is in the listed ranges
EmbeddedListed(ip) ==
  LET rest == AfterPrefix(ip)
  IN  IF \E i \in DOMAIN rest : rest[i] = "."
      THEN ListedV4(rest)
      ELSE LET high == HexNumber(FirstGroup(rest))
           IN  InListedRanges(high \div 256, high % 256)

\* an IPv6 address in lower case is ::1, in fc00::/7 or fe80::/10, or holds a
\* listed IPv4 address
ListedV6(ip) ==
  \/ ip = <<":", ":", "1">>
  \/ IsMapped(ip) /\ EmbeddedListed(ip)
  \/ LET g == FirstGroup(ip)
     IN  /\ Len(g) = 4 /\ g[1] = "f"
         /\ \/ g[2] \in {"c", "d"}
            \/ g[2] = "e" /\ g[3] \in {"8", "9", "a", "b"}

InTable(ip) == IF \E i \in DOMAIN ip : ip[i] = ":" THEN ListedV6(ip) ELSE ListedV4(ip)

\* the endpoint's host without the brackets of an IPv6 address
HostOf(o) ==
  IF At(o.endpoint.hostname, 1) = "["
  THEN SubSeq(o.endpoint.hostname, 2, Len(o.endpoint.hostname) - 1)
  ELSE o.endpoint.hostname
LocalhostPair(o) == HostOf(o) \in {<<"l", "o", "c", "a", "l", "h", "o", "s", "t">>, <<"1", "2", "7", ".", "0", ".", "0", ".", "1">>}
GoodApiKey(o) ==
  /\ o.apiKey.type = "string" /\ o.apiKey.chars # <<>>
  /\ \A i \in DOMAIN o.apiKey.chars : o.apiKey.chars[i] \notin {"CR", "LF", "NUL"}

\* C28: a client is built only if the endpoint is HTTPS or its host is
\* localhost or 127.0.0.1, the host is that pair or is not in the
\* private-address table, and the API key is a non-empty string without CR,
\* LF or NUL; a construction that throws starts no ticker, registers no
\* signal handler and leaves the files on disk as they were.
C28_ConstructionValidates ==
  /\ Constructed
       => /\ options.endpoint.given /\ options.endpoint.parses
          /\ options.endpoint.scheme = "https" \/ LocalhostPair(options)
          /\ LocalhostPair(options) \/ ~InTable(HostOf(options))
          /\ GoodApiKey(options)
  /\ lastOp = "construct_throw"
       => /\ ~timer /\ signalHandlers = {} /\ listeners = OtherHandlers
          /\ spool = LeftOnDisk /\ recovering = <<>> /\ ~recoveryPath
          /\ buffer = <<>> /\ loadSource = "none"

\* C29: for an address ::ffff:a.b.c.d the resolver hook, which asks the
\* predicate, refuses it if and only if a.b.c.d is in the listed IPv4 ranges.
C29_MappedFollowsEmbedded ==
  (/\ lookup.verdict \in {"ssrf", "fresh"}
   /\ lookup.address.kind = "string"
   /\ V4MappedMatches(lookup.address.chars))
    => (lookup.verdict = "ssrf" <=> EmbeddedListed(LowerCase(lookup.address.chars)))

\* a host that is a textual IP address: IPv4, or IPv6 in its brackets
IsTextualIP(hostname) == At(hostname, 1) = "[" \/ isIPv4(hostname)
OtherwiseValid(o) ==
  /\ o.endpoint.given /\ o.endpoint.parses /\ o.endpoint.scheme = "https"
  /\ GoodApiKey(o)

\* C30: with an HTTPS endpoint and a good key, where construction turns on
\* the predicate alone, no host that is a name is refused, whatever its
\* first characters, and an IPv4 host other than 127.0.0.1 is refused exactly
\* when it is in the listed ranges.
C30_NamesPublicV4Exact ==
  (OtherwiseValid(options) /\ lastOp # "new" /\ ~LocalhostPair(options))
    => /\ ~IsTextualIP(options.endpoint.hostname) => Constructed
       /\ isIPv4(options.endpoint.hostname)
            => (lastOp = "construct_throw" <=> ListedV4(options.endpoint.hostname))

\* C31: whatever the resolver answered, the address the hook hands to the
\* transport, fresh or from its cache, is outside the private-address table,
\* and no address of the table is ever in the cache.
C31_HookNeverHandsPrivate ==
  /\ lookup.verdict \in {"fresh", "cached"} => ~InTable(LowerCase(lookup.address.chars))
  /\ lookup.cached => ~InTable(LowerCase(lookup.cacheAddress.chars))

\* what the hook's cache holds
CacheOf(l) == <<l.cached, l.cacheAddress, l.expires>>

\* C32: a lookup made before the cached entry expires, 60 seconds after the
\* resolution that stored it, hands out the cached address and asks no
\* resolver; a lookup made at or after expiry, or with nothing cached, asks
\* the resolver and puts its answer through the hook's check again; an error
\* of the resolver, like a refused address, leaves the cache as it was; and
\* a client starts with an empty cache whatever an earlier client cached.
C32_ResolverCache ==
  [][/\ lastOp' = "lookup"
          => IF lookup.cached /\ now < lookup.expires
             THEN /\ lookup'.verdict = "cached"
                  /\ lookup'.address = lookup.cacheAddress
                  /\ CacheOf(lookup') = CacheOf(lookup)
             ELSE /\ lookup'.verdict \in {"fresh", "ssrf", "dns_error"}
                  /\ lookup'.verdict = "fresh"
                       => /\ lookup'.address.kind = "string" => ~isPrivateIP(lookup'.address.chars)
                          /\ CacheOf(lookup') = <<TRUE, lookup'.address, now + 60000>>
                  /\ lookup'.verdict = "ssrf" => isPrivateIP(lookup'.address.chars)
                  /\ lookup'.verdict \in {"ssrf", "dns_error"} => CacheOf(lookup') = CacheOf(lookup)
     /\ lastOp' = "init" => lookup' = NoLookup
     /\ lastOp' \notin {"lookup", "init"} => lookup' = lookup]_vars

\* the hook answers from its cache half a TTL after a resolution that was
\* itself made after the clock had moved on
C32_Witness ==
  /\ lastOp = "lookup"
  /\ lookup.verdict = "cached"
  /\ lookup.expires = now + 30000
  /\ now > StartTime + 30000

\* C33: sortQueryString applied to its own result gives that result again,
\* and a URL whose query parameters, the parts of its query between the ?
\* and the fragment, are those of another URL in another order gives the
\* same result as that URL.
C33_SortIdempotentOrderFree ==
  /\ query.resorted.set => query.resorted.chars = query.sorted.chars
  /\ query.otherSorted.set => query.otherSorted.chars = query.sorted.chars

\* the response o with another Retry-After header, or none
WithRetryAfter(o, header) == [o EXCEPT !.retryAfter = header]

\* C34: whatever a failed response says in Retry-After, the step that handles
\* it leads to the same state but for the message handed to onError: the same
\* step is taken, with the same failure count, backoff, buffer and spool,
\* when the header has any other value or is missing and the message is left
\* as it was; and the message tells the header.
C34_RetryAfterNoEffect ==
  [][\A t \in inFlight, o \in HeaderOutcomes, header \in RetryAfterInputs :
       (o.kind = "response" /\ Settle(o) = "reject")
         => /\ SendNonRetryable(t, o)
                 => /\ SendNonRetryableSaying(t, WithRetryAfter(o, header), ErrorMessage(o))
                    /\ CallOnError.calls > 0 => lastFlight'.message = o.retryAfter
            /\ \A r \in RandomQuarters :
                 SendRetry(t, o, r)
                   => /\ SendRetrySaying(t, WithRetryAfter(o, header), r, ErrorMessage(o))
                      /\ CallOnError.calls > 0 => lastFlight'.message = o.retryAfter
            /\ SendSpill(t, o)
                 => /\ SendSpillSaying(t, WithRetryAfter(o, header), ErrorMessage(o))
                    /\ CallOnError.calls > 0 => lastFlight'.message = o.retryAfter]_vars

\* a response with Retry-After: 120 failed for the second time in a row and
\* the batch is back in the buffer, the backoff being that of a second failure
C34_Witness ==
  /\ lastOp = "retry"
  /\ lastFlight.message = "120"
  /\ consecutiveFailures = 2
  /\ backoffUntil > now /\ backoffUntil <= now + 2 * BASE_BACKOFF_MS
  /\ IsPrefix(lastFlight.events, buffer)

\* a step that starts an HTTP submission
SubmissionStarts == lastOp' \in FlushCallOps /\ lastFlight'.pc = "send"

\* C35 as stated: the step that follows the handling of a retryable failure,
\* the 5th in a row with its spill included, never starts a submission: time
\* has to pass first.
C35_WaitAfterEveryRetryable ==
  [][(lastOp \in {"retry", "spill_done"}) => ~SubmissionStarts]_vars

\* C35 amended: after a retryable failure that leaves the failure count at 1
\* to 4 a backoff is running and no submission starts before it has elapsed;
\* the 5th failure in a row ends with the counter at 0 and no backoff running,
\* so that the very next step may start a submission.
C35_WaitWhileCounting ==
  /\ [](lastOp = "retry" => (consecutiveFailures \in 1..4 /\ now < backoffUntil))
  /\ [](lastOp = "spill_done" => (consecutiveFailures = 0 /\ ~BackingOff))
  /\ [][SubmissionStarts => ~BackingOff]_vars
  /\ [][(lastOp = "retry" /\ SubmissionStarts) => FALSE]_vars

\* a submission has started with the counter at 0 and the deadline of the 4th
\* failure, long passed, still in backoffUntil: the first after a spill
C35_Witness ==
  /\ lastOp \in FlushCallOps
  /\ lastFlight.pc = "send" /\ lastFlight \in inFlight
  /\ lastFlight.failures0 = 0
  /\ lastFlight.backoff0 > 0 /\ lastFlight.backoff0 <= now
  /\ spool # <<>>

\* C36: with no flush in flight consecutiveFailures is 0 to 4; it is 5 only
\* inside the one flush whose submission failed for the 5th time in a row,
\* while that flush writes its batch to the spool; and it is never above 5.
C36_FailureCountRange ==
  /\ consecutiveFailures \in 0..MAX_CONSECUTIVE_FAILURES
  /\ ~flushInFlight => consecutiveFailures \in 0..(MAX_CONSECUTIVE_FAILURES - 1)
  /\ consecutiveFailures = MAX_CONSECUTIVE_FAILURES
       => /\ flushInFlight
          /\ inFlight # {}
          /\ \A t \in inFlight : t.branch = "spill" /\ t.pc \in {"stat", "write", "close"}

\* the 5th failure in a row is being written to the spool
C36_Witness ==
  /\ consecutiveFailures = MAX_CONSECUTIVE_FAILURES
  /\ flushInFlight
  /\ \E t \in inFlight : t.branch = "spill" /\ t.pc = "write" /\ t.failures0 = 4

\* ids of the events in the lines of the file at storagePath + ".recovering"
RecoveringIds == UNION {Ids(recovering[i]) : i \in DOMAIN recovering}

\* the steps in which a doFlush() returns after its submission settled
FlightReturnOps == {"success", "retry"}

\* C37: a doFlush() that was pending while the signal handler ran
\* shutdownSync(), and returns in the very next step, leaves each event of its
\* batch acknowledged by a 2xx response or on disk (in the spool file, or still
\* in the recovery file it was loaded from): none is only in the buffer of the
\* client, whose ticker is stopped and whose transport is destroyed.
C37_InFlightBatchSettled ==
  [][(lastOp = "signal" /\ lastOp' \in FlightReturnOps)
       => /\ lastFlight' \in inFlight
          /\ ~timer' /\ agentDestroyed'
          /\ Ids(lastFlight'.events) \subseteq (acked' \cup SpoolIds' \cup RecoveringIds')]_vars

\* the events in the recovery file: what its lines hold, a corrupt line holding none
RecoverySourceIds == RecoveringIds \ Ids(CorruptLine)

\* C38: no step takes a recovered event off the disk before a 2xx response has
\* acknowledged it: each event in the recovery file that is not acknowledged
\* after the step is then still in the recovery file or in the spool file,
\* whether it waits in the buffer, is in flight, or was never loaded because
\* the buffer had reached maxBufferSize.
C38_RecoveredStaysOnDisk ==
  [][(RecoverySourceIds \ acked') \subseteq (RecoveringIds' \cup SpoolIds')]_vars

\* shutdown() has resolved or shutdownSync() has returned: agent.destroy() is
\* the last statement of both
ShutdownOver == agentDestroyed

\* C39: shutdown() is terminal: once it has resolved, or shutdownSync() has
\* returned, the client starts no further HTTP submission, and no later
\* track() call leaves its event in the buffer.
C39_ShutdownTerminal ==
  /\ [][ShutdownOver => ~SubmissionStarts]_vars
  /\ [][(ShutdownOver /\ lastOp' = "track")
          => \A i \in DOMAIN buffer' : buffer'[i].id # nextId]_vars

(***************************************************************************)
(* The flush engine under the scheduling of the Node.js event loop: the     *)
(* interval timer of startTimer() keeps firing, a pending send() settles,   *)
(* a pending disk operation completes, and the clock moves on.              *)
(***************************************************************************)
\* Math.random() there: 0, the shortest backoff, so that five failures in a row
\* fit before the clock stops
LiveRandomQuarters == {0}

\* the submission of a pending doFlush() settles, one way or another
SendSettles ==
  \E t \in inFlight, o \in Outcomes :
    \/ SendSuccess(t, o)
    \/ SendNonRetryable(t, o)
    \/ SendSpill(t, o)
    \/ \E r \in LiveRandomQuarters : SendRetry(t, o, r)

\* the spool write of a pending doFlush() takes its next step, and the doFlush() returns
PersistProceeds ==
  \E t \in inFlight :
    \/ PersistSkip(t) \/ PersistStat(t) \/ PersistWrite(t) \/ PersistError(t)
    \/ FinishNonRetryable(t)
    \/ \E r \in LiveRandomQuarters : FinishSpill(t, r)

ClockAdvances == \E dt \in TimeSteps : AdvanceTime(dt)

LiveNext ==
  \/ \E e \in TrackInputs(nextId) : Track(e)
  \/ TimerTick
  \/ \E t \in inFlight, o \in Outcomes : SendSuccess(t, o)
  \/ \E t \in inFlight, o \in Outcomes : SendNonRetryable(t, o)
  \/ \E t \in inFlight, o \in Outcomes, r \in LiveRandomQuarters : SendRetry(t, o, r)
  \/ \E t \in inFlight, o \in Outcomes : SendSpill(t, o)
  \/ \E t \in inFlight : PersistSkip(t)
  \/ \E t \in inFlight : PersistStat(t)
  \/ \E t \in inFlight : PersistWrite(t)
  \/ \E t \in inFlight : PersistError(t)
  \/ \E t \in inFlight : FinishNonRetryable(t)
  \/ \E t \in inFlight, r \in LiveRandomQuarters : FinishSpill(t, r)
  \/ \E dt \in TimeSteps : AdvanceTime(dt)

LiveSpec ==
  /\ Init /\ [][LiveNext]_vars
  /\ WF_vars(TimerTick)
  /\ WF_vars(SendSettles)
  /\ WF_vars(PersistProceeds)
  /\ WF_vars(ClockAdvances)

\* the clock passes every backoff deadline
ClockPassesDeadlines == []<>(~BackingOff)

\* from some point on no event is tracked and every submission gets a 2xx response
OnlySuccessFromSomePoint ==
  <>[](lastOp \notin {"track", "retry", "nonretry", "spill", "flush_rejected"})

\* no event is acknowledged, every submission fails retryably, and the spool
\* write of a 5th failure finds the file below its cap and the disk in order
OnlyRetryableFailures ==
  [](lastOp \notin {"success", "nonretry", "flush_rejected", "persist_skip", "persist_error"})

\* the host has made its last track() call
TrackingOver == nextId > MaxEvents

\* C40: under the scheduling of the event loop, (1) if from some point on no
\* event is tracked and every submission gets a 2xx response, then from some
\* point on the buffer is empty and consecutiveFailures and backoffUntil are
\* 0; (2) if every submission fails retryably, each event in the buffer after
\* the last track() call is eventually in the spool file.
C40_DrainsOrSpools ==
  /\ (OnlySuccessFromSomePoint /\ ClockPassesDeadlines)
       => <>[](buffer = <<>> /\ consecutiveFailures = 0 /\ backoffUntil = 0)
  /\ (OnlyRetryableFailures /\ ClockPassesDeadlines)
       => \A id \in 1..MaxEvents :
            [](((TrackingOver /\ id \in Ids(buffer)) => <>(id \in SpoolIds)))

====
